---- MODULE Spec2Model ----
(***************************************************************************)
(* Model of the sberpm process-mining library: the event log held by       *)
(* DataHolder (derived durations, unit conversion, grouping with a worker  *)
(* pool), CycleMetric.find, HeuMiner.apply, the apply methods of IdMetric, *)
(* ActivityMetric and TransitionMetric, AutoInsights and BpmnExporter.     *)
(*                                                                         *)
(* The event log is the table DataHolder.data after preprocessing: a       *)
(* sequence of rows sorted by case id, the rows of one case in time order. *)
(* Floating point results are kept as exact fractions <<num, den>> with a  *)
(* positive denominator.                                                   *)
(***************************************************************************)
EXTENDS Integers, Sequences, FiniteSets, TLC

VARIABLES
    stage,          \* "input": the table is being read, "holder": DataHolder constructed
    data,           \* DataHolder.data: sequence of rows [id, activity, duration]
    dh,             \* DataHolder column configuration
    cycle_metric,   \* CycleMetric instance (None before construction)
    cycle_result,   \* value returned by CycleMetric.find (None before the call)
    miner,          \* HeuMiner instance: threshold, heu_df, graph
    id_metric,      \* IdMetric instance: time unit and cached metrics table
    transition_metric, \* TransitionMetric instance and the table returned by apply
    stats,          \* the metrics table handed to AutoInsights._get_insight
    insights,       \* the insight table returned by AutoInsights._get_insight
    activity_metric, \* ActivityMetric instance: time unit and cached metrics table
    auto_insights,  \* AutoInsights instance: _node_insights, _edge_insights, graph
    exporter,       \* BpmnExporter instance: xml_maker
    pool,           \* the worker pool of one get_grouped_data call
    table,          \* the caller's input table with a numeric duration column
    holders,        \* the DataHolders constructed from the caller's table
    call,           \* the last call made: operation, arguments, outcome
    pydot_graph,    \* the graph with coordinates loaded into the XMLMakers
    counter,        \* the class attributes "counter" of the BPMN object classes
    bpmns           \* the BPMN objects of the XMLMaker.make calls, in call order

vars == <<stage, data, dh, cycle_metric, cycle_result, miner, id_metric,
          transition_metric, stats, insights,
          activity_metric, auto_insights, exporter, pool, table, holders, call,
          pydot_graph, counter, bpmns>>

-----------------------------------------------------------------------------
(* Bounds of the model.                                                    *)

MaxRows == 6
MaxCases == 2

Acts == {"A", "B", "C"}
Durations == {10, 20}

\* Python's None for an object that does not exist yet, and pandas' NaN (a
\* shifted column has NaN where no row exists).
None == [none |-> TRUE]
NaN == "NaN"

\* A pandas DataFrame: its rows in index order.
DataFrame(rows) == [rows |-> rows]

\* Lexicographic order of the activity names (the order pandas sorts group keys in).
ActRank(a) == CASE a = "A" -> 1 [] a = "B" -> 2 [] a = "C" -> 3 [] OTHER -> 4

-----------------------------------------------------------------------------
(* Generic helpers on sequences and fractions.                             *)

Range(s) == {s[i] : i \in DOMAIN s}

RECURSIVE SumSeq(_)
SumSeq(s) == IF s = <<>> THEN 0 ELSE Head(s) + SumSeq(Tail(s))

\* Fractions <<n, d>> with d > 0.
FracEq(x, y) == x[1] * y[2] = y[1] * x[2]
FracLt(x, y) == x[1] * y[2] < y[1] * x[2]
FracLe(x, y) == x[1] * y[2] <= y[1] * x[2]

-----------------------------------------------------------------------------
(* DataHolder                                                              *)

\* The case ids are "1", "2", ...; they are modelled by their numbers.
NumCases(d) == IF d = <<>> THEN 0 ELSE d[Len(d)].id

\* One more row of the input table, already in the order _preprocess_data
\* leaves it in (sorted by id, then by timestamp): the row belongs to the last
\* case or opens the next one.
ReadRow(acts, durs) ==
    /\ stage = "input"
    /\ Len(data) < MaxRows
    /\ \E i \in 1..MaxCases, a \in acts, d \in durs :
          /\ i \in {NumCases(data), NumCases(data) + 1} \ {0}
          /\ data' = Append(data, [id |-> i, activity |-> a, duration |-> d])
    /\ UNCHANGED <<stage, dh, cycle_metric, cycle_result, miner, id_metric,
                   transition_metric, stats, insights,
                   activity_metric, auto_insights, exporter, pool, table, holders, call,
                   pydot_graph, counter, bpmns>>

\* DataHolder(data, id_column, activity_column, start_timestamp_column,
\* end_timestamp_column, duration_column=..., duration_unit='second').
DataHolderInit(start_ts, end_ts) ==
    /\ stage = "input"
    /\ stage' = "holder"
    /\ dh' = [start_timestamp_column |-> start_ts,
              end_timestamp_column |-> end_ts,
              duration_column |-> TRUE]
    /\ UNCHANGED <<data, cycle_metric, cycle_result, miner, id_metric,
                   transition_metric, stats, insights,
                   activity_metric, auto_insights, exporter, pool, table, holders, call,
                   pydot_graph, counter, bpmns>>

\* Variant of get_unique_activities that misses the activity of the last row.
get_unique_activities_but_last(d) == {d[i].activity : i \in 1..(Len(d) - 1)}

\* DataHolder.get_unique_activities: data[activity_column].unique().
get_unique_activities(d) == {d[i].activity : i \in DOMAIN d}

\* DataHolder._groupby / get_grouped_data(activity_column): one tuple of
\* activities per case id, in id order.
RowsOfCase(d, c) == SelectSeq(d, LAMBDA r : r.id = c)
ChainOf(d, c) == [i \in 1..Len(RowsOfCase(d, c)) |-> RowsOfCase(d, c)[i].activity]
get_grouped_data(d) == [c \in 1..NumCases(d) |-> ChainOf(d, c)]

-----------------------------------------------------------------------------
(* CycleMetric                                                             *)

\* cycle_length: None and 0 are both falsy at "if self._cycle_length"; NoLength
\* stands for them.
NoLength == 0
CycleLengths == {NoLength, 1, 2, 3}

\* CycleMetric.__init__
CycleMetricInit(cycle_length) ==
    /\ stage = "holder"
    /\ cycle_metric = None
    /\ cycle_metric' = [_cycle_length |-> cycle_length,
                        _chains |-> get_grouped_data(data),
                        _unique_activities |-> get_unique_activities(data)]
    /\ UNCHANGED <<stage, data, dh, cycle_result, miner, id_metric,
                   transition_metric, stats, insights,
                   activity_metric, auto_insights, exporter, pool, table, holders, call,
                   pydot_graph, counter, bpmns>>

\* _get_indices_of_cyclic_element (1-based here, 0-based in the source)
get_indices_of_cyclic_element(chain, elem) ==
    SelectSeq([i \in 1..Len(chain) |-> i], LAMBDA i : chain[i] = elem)

\* Variant of _get_length_of_cycle that measures to the second occurrence.
get_length_of_cycle_second(chain, elem) ==
    LET ind == get_indices_of_cyclic_element(chain, elem)
    IN ind[2] - ind[1]

\* _get_length_of_cycle: from the first to the last occurrence.
get_length_of_cycle(chain, elem) ==
    LET ind == get_indices_of_cyclic_element(chain, elem)
    IN ind[Len(ind)] - ind[1]

\* Variant of ChainCount that takes the length of the chain for the count.
ChainCountLength(chain, elem) == Len(chain)

\* _count_chain: the activities occurring more than once in the chain (and,
\* with a truthy cycle length, spanning exactly that length) with their counts.
ChainCount(chain, elem) == Len(get_indices_of_cyclic_element(chain, elem))

count_chain(chain, cycle_length) ==
    LET keys == {e \in Range(chain) :
                    /\ ChainCount(chain, e) > 1
                    /\ cycle_length # NoLength
                          => get_length_of_cycle(chain, e) = cycle_length}
    IN [e \in keys |-> ChainCount(chain, e)]

\* The keys of a dict in insertion order: first occurrence in the chain.
RECURSIVE FirstOccurrences(_, _)
FirstOccurrences(chain, seen) ==
    IF chain = <<>> THEN <<>>
    ELSE IF Head(chain) \in seen THEN FirstOccurrences(Tail(chain), seen)
         ELSE <<Head(chain)>> \o FirstOccurrences(Tail(chain), seen \cup {Head(chain)})

\* try: cyclic_edges[p] += 1  except KeyError: cyclic_edges[p] = 1
IncEdge(edges, p) ==
    IF p \in DOMAIN edges THEN [edges EXCEPT ![p] = @ + 1]
    ELSE edges @@ (p :> 1)

\* for i in indices[1:]: count the transition (chain[i-1], chain[i])
RECURSIVE CountIndices(_, _, _)
CountIndices(edges, chain, idxs) ==
    IF idxs = <<>> THEN edges
    ELSE CountIndices(IncEdge(edges, <<chain[Head(idxs) - 1], chain[Head(idxs)]>>),
                      chain, Tail(idxs))

\* Variant of CountElems that starts at the third occurrence (indices[2:]).
RECURSIVE CountElemsFromThird(_, _, _)
CountElemsFromThird(edges, chain, elems) ==
    IF elems = <<>> THEN edges
    ELSE LET ind == Tail(get_indices_of_cyclic_element(chain, Head(elems)))
         IN CountElemsFromThird(CountIndices(edges, chain, Tail(ind)), chain, Tail(elems))

\* for elem in elems: ...
RECURSIVE CountElems(_, _, _)
CountElems(edges, chain, elems) ==
    IF elems = <<>> THEN edges
    ELSE CountElems(CountIndices(edges, chain,
                                 Tail(get_indices_of_cyclic_element(chain, Head(elems)))),
                    chain, Tail(elems))

\* cyclic_nodes += Counter(cyclic_nodes_count_in_chain)
CounterAdd(c1, c2) ==
    LET v(k) == (IF k \in DOMAIN c1 THEN c1[k] ELSE 0) + (IF k \in DOMAIN c2 THEN c2[k] ELSE 0)
    IN [k \in {x \in DOMAIN c1 \cup DOMAIN c2 : v(x) > 0} |-> v(k)]

\* The initial edge map: zip(data[activity], data[activity].shift(-1)), all 0.
ShiftedPairs(d) ==
    {<<d[i].activity, IF i < Len(d) THEN d[i + 1].activity ELSE NaN>> : i \in DOMAIN d}

\* for chain in self._chains: ...
RECURSIVE FindLoop(_, _, _, _)
FindLoop(nodes, edges, chains, cycle_length) ==
    IF chains = <<>> THEN [nodes |-> nodes, edges |-> edges]
    ELSE LET chain == Head(chains)
             doubles == count_chain(chain, cycle_length)
             elems == SelectSeq(FirstOccurrences(chain, {}), LAMBDA e : e \in DOMAIN doubles)
         IN FindLoop(CounterAdd(nodes, doubles),
                     CountElems(edges, chain, elems),
                     Tail(chains), cycle_length)

\* Variant of BackFill without the back-fill loop.
BackFillNothing(nodes, unique) == nodes

\* The zero back-fill of the activities that are cyclic nowhere.
BackFill(nodes, unique) ==
    [k \in DOMAIN nodes \cup unique |-> IF k \in DOMAIN nodes THEN nodes[k] ELSE 0]

find(cm, d) ==
    LET r == FindLoop(<<>>, [p \in ShiftedPairs(d) |-> 0], cm._chains, cm._cycle_length)
    IN [nodes |-> BackFill(r.nodes, cm._unique_activities), edges |-> r.edges]

\* CycleMetric.find
CycleMetricFind ==
    /\ cycle_metric # None
    /\ cycle_result = None
    /\ cycle_result' = find(cycle_metric, data)
    /\ UNCHANGED <<stage, data, dh, cycle_metric, miner, id_metric,
                   transition_metric, stats, insights,
                   activity_metric, auto_insights, exporter, pool, table, holders, call,
                   pydot_graph, counter, bpmns>>

-----------------------------------------------------------------------------
(* HeuMiner                                                                *)

\* The thresholds tried, in tenths: 0.0, 0.4, 0.5, 0.8 (the default), 1.0.
ThresholdTenths == {0, 4, 5, 8, 10}
DefaultThreshold == <<8, 10>>

\* df.groupby('id')['a'].shift(-k): the activity k rows later in the same case.
GroupShift(d, k) ==
    [i \in 1..Len(d) |->
        IF i + k <= Len(d) /\ d[i + k].id = d[i].id THEN d[i + k].activity ELSE NaN]

\* Order of the group keys (a, b) after groupby(['a', 'b']).
PairLess(p, q) ==
    \/ ActRank(p[1]) < ActRank(q[1])
    \/ ActRank(p[1]) = ActRank(q[1]) /\ ActRank(p[2]) < ActRank(q[2])

RECURSIVE SortPairs(_)
SortPairs(S) ==
    IF S = {} THEN <<>>
    ELSE LET m == CHOOSE p \in S : \A q \in S \ {p} : PairLess(p, q)
         IN <<m>> \o SortPairs(S \ {m})

\* groupby(['a', 'b']).count().reset_index(): one row per pair (a, b) with a
\* non-null b, in key order, with the number of rows of the pair.
GroupByCount(d, k) ==
    LET b == GroupShift(d, k)
        keys == SortPairs({<<d[i].activity, b[i]>> : i \in {j \in DOMAIN d : b[j] # NaN}})
    IN [r \in 1..Len(keys) |->
          [a |-> keys[r][1], b |-> keys[r][2],
           n |-> Cardinality({i \in DOMAIN d : d[i].activity = keys[r][1] /\ b[i] = keys[r][2]})]]

\* temp_a_b / temp_b_a: the string columns a + ' -> ' + b and b + ' -> ' + a.
TempAB(rows) == [i \in DOMAIN rows |-> rows[i].a \o " -> " \o rows[i].b]
TempBA(rows) == [i \in DOMAIN rows |-> rows[i].b \o " -> " \o rows[i].a]

\* Variant of Indexes that keeps the rows of one activity only.
IndexesSame(rows) ==
    {i \in DOMAIN rows : TempAB(rows)[i] \in Range(TempBA(rows)) /\ rows[i].a = rows[i].b}

\* indexes: the rows whose string occurs in the reversed column, a != b.
Indexes(rows) ==
    {i \in DOMAIN rows : TempAB(rows)[i] \in Range(TempBA(rows)) /\ rows[i].a # rows[i].b}

\* Variant of ReverseCount that leaves the column at its initial 0.
ReverseCountZero(rows, i) == 0

\* The column 'b<a' ('b<<a'): 0, and for the rows in indexes the count of the
\* row selected by mask_b_a_row.
ReverseCount(rows, i) ==
    IF i \in Indexes(rows)
    THEN rows[CHOOSE j \in DOMAIN rows : rows[j].a = rows[i].b /\ rows[j].b = rows[i].a].n
    ELSE 0

\* Variant of Len1Coeff that adds the reverse count in the numerator.
Len1CoeffSum(rows, i) ==
    IF rows[i].a = rows[i].b THEN <<rows[i].n, rows[i].n + 1>>
    ELSE <<rows[i].n + ReverseCount(rows, i), rows[i].n + ReverseCount(rows, i) + 1>>

\* The coefficient of a distance-1 row, with the self-loop override.
Len1Coeff(rows, i) ==
    IF rows[i].a = rows[i].b THEN <<rows[i].n, rows[i].n + 1>>
    ELSE <<rows[i].n - ReverseCount(rows, i), rows[i].n + ReverseCount(rows, i) + 1>>

\* The coefficient of a distance-2 row.
Len2Coeff(rows, i) ==
    <<rows[i].n + ReverseCount(rows, i), rows[i].n + ReverseCount(rows, i) + 1>>

\* Variant of filter_func that also rejects a pair whose reverse is a distance-1 pair.
filter_func_both(x, pairs) ==
    ~ (<<x.a, x.b>> \in pairs \/ <<x.b, x.a>> \in pairs \/ x.a = x.b)

\* _filter_func: TRUE (kept) or None (dropped by dropna).
filter_func(x, pairs) == ~ (<<x.a, x.b>> \in pairs \/ x.a = x.b)

\* _calc_coeffs: the rows [a, b, coeff] of heu_df, distance-1 rows first.
calc_coeffs(d) ==
    LET len1 == GroupByCount(d, 1)
        len2 == GroupByCount(d, 2)
        rows1 == [i \in DOMAIN len1 |->
                     [a |-> len1[i].a, b |-> len1[i].b, coeff |-> Len1Coeff(len1, i)]]
        rows2 == [i \in DOMAIN len2 |->
                     [a |-> len2[i].a, b |-> len2[i].b, coeff |-> Len2Coeff(len2, i)]]
        pairs == {<<len1[i].a, len1[i].b>> : i \in DOMAIN len1}
    IN rows1 \o SelectSeq(rows2, LAMBDA x : filter_func(x, pairs))

\* Variant of create_edges with a strict comparison.
create_edges_strict(heu_df, threshold) ==
    {<<heu_df[i].a, heu_df[i].b>> :
        i \in {j \in DOMAIN heu_df : FracLt(threshold, heu_df[j].coeff)}}

\* _create_edges: the pairs of the rows with coeff >= threshold.
create_edges(heu_df, threshold) ==
    {<<heu_df[i].a, heu_df[i].b>> :
        i \in {j \in DOMAIN heu_df : FracLe(threshold, heu_df[j].coeff)}}

\* The graph built by AbstractMiner: one node per unique activity, the two
\* pseudo-nodes, and the edges from the start node to the first activity of
\* every case and from the last activity of every case to the end node.
StartNode == "startevent"
EndNode == "endevent"

get_first_last_activities(chains) ==
    [first |-> {chains[c][1] : c \in DOMAIN chains},
     last |-> {chains[c][Len(chains[c])] : c \in DOMAIN chains}]

create_transitions(unique_activities) == unique_activities

create_start_end_events_and_edges(fl) ==
    [nodes |-> {StartNode, EndNode},
     edges |-> {<<StartNode, x>> : x \in fl.first} \cup {<<x, EndNode>> : x \in fl.last}]

\* HeuMiner.__init__
HeuMinerInit(threshold) ==
    /\ stage = "holder"
    /\ miner = None
    /\ miner' = [threshold |-> threshold, heu_df |-> None, graph |-> None]
    /\ UNCHANGED <<stage, data, dh, cycle_metric, cycle_result, id_metric,
                   transition_metric, stats, insights,
                   activity_metric, auto_insights, exporter, pool, table, holders, call,
                   pydot_graph, counter, bpmns>>

\* HeuMiner.apply
HeuMinerApply ==
    /\ miner # None
    /\ miner.graph = None
    /\ LET unique_activities == get_unique_activities(data)
           heu_df == calc_coeffs(data)
           se == create_start_end_events_and_edges(
                    get_first_last_activities(get_grouped_data(data)))
       IN miner' = [miner EXCEPT
                      !.heu_df = DataFrame(heu_df),
                      !.graph = [nodes |-> create_transitions(unique_activities) \cup se.nodes,
                                 edges |-> se.edges \cup create_edges(heu_df, miner.threshold)]]
    /\ UNCHANGED <<stage, data, dh, cycle_metric, cycle_result, id_metric,
                   transition_metric, stats, insights,
                   activity_metric, auto_insights, exporter, pool, table, holders, call,
                   pydot_graph, counter, bpmns>>

-----------------------------------------------------------------------------
(* BaseMetric and IdMetric                                                 *)

TimeUnits == {"second", "minute"}

\* BaseMetric.__init__: the number of seconds of the time unit.
TimeUnitSeconds(time_unit) ==
    CASE time_unit \in {"week", "w"} -> 604800
      [] time_unit \in {"day", "d"} -> 86400
      [] time_unit \in {"hour", "h"} -> 3600
      [] time_unit \in {"minute", "m"} -> 60
      [] time_unit \in {"second", "s"} -> 1

\* The durations (seconds) of the rows of one group, in row order.
DurationsOf(rows) == [i \in DOMAIN rows |-> rows[i].duration]

RECURSIVE SortInts(_)
SortInts(s) ==
    IF s = <<>> THEN <<>>
    ELSE LET m == CHOOSE i \in DOMAIN s : \A j \in DOMAIN s : s[i] <= s[j]
         IN <<s[m]>> \o SortInts(SubSeq(s, 1, m - 1) \o SubSeq(s, m + 1, Len(s)))

sum_by(durs, unit) == <<SumSeq(durs), unit>>
max_by(durs, unit) == <<SortInts(durs)[Len(durs)], unit>>
min_by(durs, unit) == <<SortInts(durs)[1], unit>>
mean_by(durs, unit) == <<SumSeq(durs), Len(durs) * unit>>
median_by(durs, unit) ==
    LET srt == SortInts(durs)
        n == Len(durs)
    IN IF n % 2 = 1 THEN <<srt[(n + 1) \div 2], unit>>
       ELSE <<srt[n \div 2] + srt[n \div 2 + 1], 2 * unit>>
\* var(ddof=0) / time_unit
variance_by(durs, unit) ==
    LET n == Len(durs)
    IN <<n * SumSeq([i \in DOMAIN durs |-> durs[i] * durs[i]]) - SumSeq(durs) * SumSeq(durs),
         n * n * unit>>
\* std(ddof=0) / time_unit: the square root of the variance in seconds, over the unit.
std_by(durs, unit) == [sqrt_of |-> variance_by(durs, 1), over |-> unit]

\* _calculate_time_metrics: the duration columns of one group.
calculate_time_metrics(durs, unit, std) ==
    LET base == [total_duration |-> sum_by(durs, unit),
                 min_duration |-> min_by(durs, unit),
                 max_duration |-> max_by(durs, unit),
                 mean_duration |-> mean_by(durs, unit),
                 median_duration |-> median_by(durs, unit)]
    IN IF std
       THEN base @@ [variance_duration |-> variance_by(durs, unit),
                     std_duration |-> std_by(durs, unit)]
       ELSE base

\* Variant of trace_columns whose cycle_percent lacks the "1 -".
trace_columns_ratio(trace) ==
    [trace |-> trace,
     trace_length |-> Len(trace),
     unique_activities_num |-> Cardinality(Range(trace)),
     cycle_percent |-> <<Cardinality(Range(trace)) * 100, Len(trace)>>]

\* IdMetric.apply: the columns computed from the trace of one case;
\* cycle_percent = (1 - unique_activities_num / trace_length) * 100.
trace_columns(trace) ==
    [trace |-> trace,
     trace_length |-> Len(trace),
     unique_activities_num |-> Cardinality(Range(trace)),
     cycle_percent |-> <<(Len(trace) - Cardinality(Range(trace))) * 100, Len(trace)>>]

\* IdMetric.__init__ (BaseMetric.__init__ with the duration column present)
IdMetricInit(time_unit) ==
    /\ stage = "holder"
    /\ dh.duration_column
    /\ id_metric = None
    /\ id_metric' = [_time_unit |-> TimeUnitSeconds(time_unit), metrics |-> None]
    /\ UNCHANGED <<stage, data, dh, cycle_metric, cycle_result, miner,
                   transition_metric, stats, insights,
                   activity_metric, auto_insights, exporter, pool, table, holders, call,
                   pydot_graph, counter, bpmns>>

\* IdMetric.apply(std): computes the table on the first call only and returns
\* self.metrics.
IdMetricApply(std) ==
    /\ id_metric # None
    /\ id_metric' =
         IF id_metric.metrics = None
         THEN [id_metric EXCEPT !.metrics = DataFrame(
                 [c \in 1..NumCases(data) |->
                     [id |-> c] @@ trace_columns(ChainOf(data, c))
                        @@ calculate_time_metrics(DurationsOf(RowsOfCase(data, c)),
                                                  id_metric._time_unit, std)])]
         ELSE id_metric
    /\ UNCHANGED <<stage, data, dh, cycle_metric, cycle_result, miner,
                   transition_metric, stats, insights,
                   activity_metric, auto_insights, exporter, pool, table, holders, call,
                   pydot_graph, counter, bpmns>>

-----------------------------------------------------------------------------
(* TransitionMetric                                                        *)

\* The label column: start activity + "-->" + end activity.
EdgeLabel(a, b) == a \o "-->" \o b

\* _split_tuple: tuple(x.split("-->")), for labels of two names free of "-->".
split_tuple(x) == CHOOSE p \in Acts \X Acts : EdgeLabel(p[1], p[2]) = x

\* String order of the labels (the order of the groupby keys).
LabelLess(x, y) == PairLess(split_tuple(x), split_tuple(y))

RECURSIVE SortLabels(_)
SortLabels(S) ==
    IF S = {} THEN <<>>
    ELSE LET m == CHOOSE x \in S : \A y \in S \ {x} : LabelLess(x, y)
         IN <<m>> \o SortLabels(S \ {m})

\* _edge_data: every row paired with the next row (start timestamp only) or
\* with the previous row (otherwise) of the whole table; the rows whose pair
\* has two different ids (or no partner) are dropped. A kept row has the label
\* of its pair and its own duration.
edge_data(d, cfg) ==
    LET forward == cfg.start_timestamp_column /\ ~ cfg.end_timestamp_column
        partner(i) == IF forward THEN i + 1 ELSE i - 1
        kept == SelectSeq([i \in 1..Len(d) |-> i],
                          LAMBDA i : partner(i) \in DOMAIN d /\ d[partner(i)].id = d[i].id)
    IN [k \in DOMAIN kept |->
          LET i == kept[k] IN
          [label |-> IF forward THEN EdgeLabel(d[i].activity, d[i + 1].activity)
                     ELSE EdgeLabel(d[i - 1].activity, d[i].activity),
           duration |-> d[i].duration]]

\* _edge_data[group_column].unique(): the labels in order of first appearance.
unique_edges(ed) == FirstOccurrences([i \in DOMAIN ed |-> ed[i].label], {})

\* _edge_data.groupby(group_column): the labels in sorted order, each with the
\* rows of its group.
group_keys(ed) == SortLabels({ed[i].label : i \in DOMAIN ed})
group_rows(ed, key) == SelectSeq(ed, LAMBDA r : r.label = key)

\* TransitionMetric.__init__
TransitionMetricInit(time_unit, cycle_length) ==
    /\ stage = "holder"
    /\ dh.duration_column
    /\ transition_metric = None
    /\ transition_metric' =
         [_time_unit |-> TimeUnitSeconds(time_unit),
          _cycle_metric |-> [_cycle_length |-> cycle_length,
                             _chains |-> get_grouped_data(data),
                             _unique_activities |-> get_unique_activities(data)],
          _unique_edges |-> unique_edges(edge_data(data, dh)),
          _edge_data |-> edge_data(data, dh),
          metrics |-> None,
          returned |-> None]
    /\ UNCHANGED <<stage, data, dh, cycle_metric, cycle_result, miner, id_metric,
                   stats, insights,
                   activity_metric, auto_insights, exporter, pool, table, holders, call,
                   pydot_graph, counter, bpmns>>

\* The metrics table built by apply: row i has the i-th label of _unique_edges
\* and the count and duration columns of the i-th group in key order.
transition_table(tm, std) ==
    LET keys == group_keys(tm._edge_data)
    IN [i \in DOMAIN tm._unique_edges |->
          [transition |-> split_tuple(tm._unique_edges[i]),
           total_count |-> Len(group_rows(tm._edge_data, keys[i]))]
          @@ calculate_time_metrics(DurationsOf(group_rows(tm._edge_data, keys[i])),
                                    tm._time_unit, std)]

\* sort_values('total_count', ascending=False): ties keep their order.
RECURSIVE SortByCountDesc(_)
SortByCountDesc(rows) ==
    IF rows = <<>> THEN <<>>
    ELSE LET m == CHOOSE i \in DOMAIN rows :
                    /\ \A j \in DOMAIN rows : rows[j].total_count <= rows[i].total_count
                    /\ \A j \in 1..(i - 1) : rows[j].total_count < rows[i].total_count
         IN <<rows[m]>> \o SortByCountDesc(SubSeq(rows, 1, m - 1) \o SubSeq(rows, m + 1, Len(rows)))

\* TransitionMetric.apply(std)
TransitionMetricApply(std) ==
    /\ transition_metric # None
    /\ LET metrics == IF transition_metric.metrics = None
                      THEN DataFrame(transition_table(transition_metric, std))
                      ELSE transition_metric.metrics
       IN transition_metric' = [transition_metric EXCEPT
                                  !.metrics = metrics,
                                  !.returned = DataFrame(SortByCountDesc(metrics.rows))]
    /\ UNCHANGED <<stage, data, dh, cycle_metric, cycle_result, miner, id_metric,
                   stats, insights,
                   activity_metric, auto_insights, exporter, pool, table, holders, call,
                   pydot_graph, counter, bpmns>>

-----------------------------------------------------------------------------
(* DataHolder on a log with timestamps: derived durations                  *)

MaxStampedRows == 3

\* The timestamps tried, in seconds after the first one.
Times == {0, 10, 30}

\* One more row of an input table that has timestamp columns and no duration
\* column; the rows of a case are together, in any time order.
ReadStampedRow(acts) ==
    /\ stage = "input"
    /\ Len(data) < MaxStampedRows
    /\ \E i \in 1..MaxCases, a \in acts, s \in Times, e \in Times :
          /\ i \in {NumCases(data), NumCases(data) + 1} \ {0}
          /\ data' = Append(data, [id |-> i, activity |-> a,
                                   start_timestamp |-> s, end_timestamp |-> e])
    /\ UNCHANGED <<stage, dh, cycle_metric, cycle_result, miner, id_metric,
                   transition_metric, stats, insights,
                   activity_metric, auto_insights, exporter, pool, table, holders, call,
                   pydot_graph, counter, bpmns>>

\* _preprocess_data, "Sort": by id only without a timestamp column, otherwise
\* by id and the start timestamp, or the end timestamp if no start is given.
\* Rows with equal keys keep their order.
SortKey(row, cfg) ==
    IF cfg.start_timestamp_column THEN row.start_timestamp
    ELSE IF cfg.end_timestamp_column THEN row.end_timestamp
    ELSE 0

RECURSIVE sort_values(_, _)
sort_values(d, cfg) ==
    IF d = <<>> THEN <<>>
    ELSE LET before(i, j) == \/ d[i].id < d[j].id
                             \/ d[i].id = d[j].id /\ SortKey(d[i], cfg) < SortKey(d[j], cfg)
             m == CHOOSE i \in DOMAIN d :
                     /\ \A j \in DOMAIN d : ~ before(j, i)
                     /\ \A j \in 1..(i - 1) : before(j, i) \/ before(i, j)
         IN <<d[m]>> \o sort_values(SubSeq(d, 1, m - 1) \o SubSeq(d, m + 1, Len(d)), cfg)

\* DataHolder(data, id_column, activity_column, start_timestamp_column,
\* end_timestamp_column) without a duration column.
DataHolderInitStamped(start_ts, end_ts) ==
    /\ stage = "input"
    /\ stage' = "holder"
    /\ dh' = [start_timestamp_column |-> start_ts,
              end_timestamp_column |-> end_ts,
              duration_column |-> FALSE]
    /\ data' = sort_values(data, dh')
    /\ UNCHANGED <<cycle_metric, cycle_result, miner, id_metric,
                   transition_metric, stats, insights,
                   activity_metric, auto_insights, exporter, pool, table, holders, call,
                   pydot_graph, counter, bpmns>>

\* Variant of cannot_calc_duration that never refuses.
cannot_calc_duration_never(cfg) == FALSE

\* check_or_calc_duration, line 460: no duration column and no timestamp column.
cannot_calc_duration(cfg) ==
    /\ ~ cfg.duration_column
    /\ ~ cfg.start_timestamp_column
    /\ ~ cfg.end_timestamp_column

\* A cell of the derived 'duration' column: Null for pandas' null (None / NaT),
\* Seconds(n) for a time difference of n seconds.
Null == <<>>
Seconds(n) == <<n>>

\* Variant of derived_duration without the different_id_mask.
derived_duration_unmasked(d, cfg, i) ==
    IF cfg.start_timestamp_column /\ cfg.end_timestamp_column
    THEN Seconds(d[i].end_timestamp - d[i].start_timestamp)
    ELSE IF cfg.start_timestamp_column
    THEN IF i + 1 \in DOMAIN d
         THEN Seconds(d[i + 1].start_timestamp - d[i].start_timestamp)
         ELSE Null
    ELSE IF i - 1 \in DOMAIN d
         THEN Seconds(d[i].end_timestamp - d[i - 1].end_timestamp)
         ELSE Null

\* The duration check_or_calc_duration derives for row i: end - start with
\* both columns; otherwise the difference to the shifted column, null where
\* the shifted row does not exist or has another id.
derived_duration(d, cfg, i) ==
    IF cfg.start_timestamp_column /\ cfg.end_timestamp_column
    THEN Seconds(d[i].end_timestamp - d[i].start_timestamp)
    ELSE IF cfg.start_timestamp_column
    THEN IF i + 1 \in DOMAIN d /\ d[i + 1].id = d[i].id
         THEN Seconds(d[i + 1].start_timestamp - d[i].start_timestamp)
         ELSE Null
    ELSE IF i - 1 \in DOMAIN d /\ d[i - 1].id = d[i].id
         THEN Seconds(d[i].end_timestamp - d[i - 1].end_timestamp)
         ELSE Null

\* DataHolder.check_or_calc_duration when it does not raise: the table with
\* the 'duration' column, unchanged if the holder has a duration column.
check_or_calc_duration(d, cfg) ==
    IF cfg.duration_column THEN d
    ELSE [i \in DOMAIN d |-> [duration |-> derived_duration(d, cfg, i)] @@ d[i]]

-----------------------------------------------------------------------------
(* ActivityMetric                                                          *)

\* '{:,.2f}'.format(x) of a non-negative x: the digits of the string, that is
\* x rounded to hundredths.
format_2f(x) == (200 * x[1] + x[2]) \div (2 * x[2])

\* data.groupby(activity_column): the keys in sorted order and the rows of a key.
RECURSIVE SortActs(_)
SortActs(S) ==
    IF S = {} THEN <<>>
    ELSE LET m == CHOOSE a \in S : \A b \in S : ActRank(a) <= ActRank(b)
         IN <<m>> \o SortActs(S \ {m})
activity_keys(d) == SortActs(get_unique_activities(d))
activity_rows(d, a) == SelectSeq(d, LAMBDA r : r.activity = a)

\* The time units BaseMetric.__init__ knows.
KnownTimeUnits == {"week", "w", "day", "d", "hour", "h", "minute", "m", "second", "s"}

\* ActivityMetric.__init__: BaseMetric.__init__ first calls
\* check_or_calc_duration, which raises before it changes anything or leaves
\* the holder with a duration column, and then looks at the time unit.
ActivityMetricInit(time_unit, cycle_length) ==
    /\ stage = "holder"
    /\ activity_metric = None
    /\ IF cannot_calc_duration(dh)
       THEN /\ call' = [op |-> "ActivityMetric", arg |-> time_unit,
                        raised |-> "RuntimeError"]
            /\ UNCHANGED <<data, dh, activity_metric>>
       ELSE IF time_unit \notin KnownTimeUnits
       THEN /\ data' = check_or_calc_duration(data, dh)
            /\ dh' = [dh EXCEPT !.duration_column = TRUE]
            /\ call' = [op |-> "ActivityMetric", arg |-> time_unit,
                        raised |-> "AttributeError"]
            /\ UNCHANGED activity_metric
       ELSE /\ data' = check_or_calc_duration(data, dh)
            /\ dh' = [dh EXCEPT !.duration_column = TRUE]
            /\ activity_metric' =
                 [_time_unit |-> TimeUnitSeconds(time_unit),
                  _cycle_metric |-> [_cycle_length |-> cycle_length,
                                     _chains |-> get_grouped_data(data),
                                     _unique_activities |-> get_unique_activities(data)],
                  metrics |-> None]
            /\ call' = [op |-> "ActivityMetric", arg |-> time_unit, raised |-> "none"]
    /\ UNCHANGED <<stage, cycle_metric, cycle_result, miner, id_metric,
                   transition_metric, stats, insights,
                   auto_insights, exporter, pool, table, holders,
                   pydot_graph, counter, bpmns>>

\* The table ActivityMetric.apply builds: one row per activity in key order.
activity_table(am, d, std) ==
    LET keys == activity_keys(d)
        dict_cycle == find(am._cycle_metric, d).nodes
    IN [i \in DOMAIN keys |->
          LET a == keys[i]
              rows == activity_rows(d, a)
              unique_ids == {rows[j].id : j \in DOMAIN rows}
          IN [activity |-> a,
              unique_ids |-> unique_ids,
              total_count |-> Len(rows),
              unique_ids_num |-> Cardinality(unique_ids),
              cycle_percent |-> format_2f(<<dict_cycle[a] * 100, Len(rows)>>)]
             @@ calculate_time_metrics(DurationsOf(rows), am._time_unit, std)]

\* Variant of metrics_is_none that never finds a cached table.
metrics_is_none_always(m) == TRUE

\* "if self.metrics is None"
metrics_is_none(m) == m.metrics = None

\* ActivityMetric.apply(std): returns self.metrics, computed if it was None.
\* The call records the argument, the returned table and whether the table
\* was computed by this call.
ActivityMetricApply(std) ==
    /\ activity_metric # None
    /\ LET computes == metrics_is_none(activity_metric)
           metrics == IF computes
                      THEN DataFrame(activity_table(activity_metric, data, std))
                      ELSE activity_metric.metrics
       IN /\ activity_metric' = [activity_metric EXCEPT !.metrics = metrics]
          /\ call' = [op |-> "ActivityMetric.apply", arg |-> std, raised |-> "none",
                      returned |-> metrics, computed |-> computes]
    /\ UNCHANGED <<stage, data, dh, cycle_metric, cycle_result, miner, id_metric,
                   transition_metric, stats, insights,
                   auto_insights, exporter, pool, table, holders,
                   pydot_graph, counter, bpmns>>

-----------------------------------------------------------------------------
(* DataHolder.get_grouped_data with a worker pool                          *)

\* The n_jobs values tried.
Jobs == {1, 2}

\* _groupby(data, id_column, activity_column): one row per id of the given
\* rows, in sorted id order, with the tuple of the activities of the id.
groupby(d) ==
    LET ids == SortInts(FirstOccurrences([i \in DOMAIN d |-> d[i].id], {}))
    IN [k \in DOMAIN ids |-> [id |-> ids[k], activity |-> ChainOf(d, ids[k])]]

\* generate_data_partitions(data, id_column, batch_num): every case goes to
\* one of the batch_num batches with all its rows, in table order; f gives
\* the batch of every case and the batches without rows are left out.
generate_data_partitions(d, f, batch_num) ==
    LET used == SelectSeq([b \in 1..batch_num |-> b],
                          LAMBDA b : \E i \in DOMAIN d : f[d[i].id] = b)
    IN [k \in DOMAIN used |-> SelectSeq(d, LAMBDA r : f[r.id] = used[k])]

\* Variant of concat that keeps the first table only.
concat_first(tables) == IF tables = <<>> THEN <<>> ELSE tables[1]

\* pd.concat of a list of tables: their rows in list order.
RECURSIVE concat(_)
concat(tables) == IF tables = <<>> THEN <<>> ELSE Head(tables) \o concat(Tail(tables))

\* get_grouped_data, first half: with n_jobs = 1 the table is grouped at
\* once; otherwise one task per partition is handed to the pool.
GetGroupedDataSubmit(n_jobs) ==
    /\ stage = "holder"
    /\ pool = None
    /\ IF n_jobs = 1
       THEN pool' = [n_jobs |-> n_jobs, sub_data |-> <<>>, result_objects |-> <<>>,
                     finished |-> <<>>,
                     grouped_data |-> DataFrame(groupby(data))]
       ELSE \E f \in [1..NumCases(data) -> 1..(n_jobs * 2)] :
               LET parts == generate_data_partitions(data, f, n_jobs * 2)
               IN pool' = [n_jobs |-> n_jobs, sub_data |-> parts,
                           result_objects |-> [k \in DOMAIN parts |-> None],
                           finished |-> <<>>,
                           grouped_data |-> None]
    /\ UNCHANGED <<stage, data, dh, cycle_metric, cycle_result, miner, id_metric,
                   transition_metric, stats, insights,
                   activity_metric, auto_insights, exporter, table, holders, call,
                   pydot_graph, counter, bpmns>>

\* A worker completes task k: _groupby on its partition. The field "finished"
\* lists the tasks in their order of completion.
WorkerFinish(k) ==
    /\ pool # None
    /\ pool.grouped_data = None
    /\ k \in DOMAIN pool.result_objects
    /\ pool.result_objects[k] = None
    /\ pool' = [pool EXCEPT !.result_objects[k] = DataFrame(groupby(pool.sub_data[k])),
                            !.finished = Append(@, k)]
    /\ UNCHANGED <<stage, data, dh, cycle_metric, cycle_result, miner, id_metric,
                   transition_metric, stats, insights,
                   activity_metric, auto_insights, exporter, table, holders, call,
                   pydot_graph, counter, bpmns>>

\* get_grouped_data, second half: r.get() waits for every task in submission
\* order and the results are concatenated in that order.
GetGroupedDataCollect ==
    /\ pool # None
    /\ pool.grouped_data = None
    /\ \A k \in DOMAIN pool.result_objects : pool.result_objects[k] # None
    /\ pool' = [pool EXCEPT !.grouped_data =
                  DataFrame(concat([k \in DOMAIN pool.result_objects |->
                                       pool.result_objects[k].rows]))]
    /\ UNCHANGED <<stage, data, dh, cycle_metric, cycle_result, miner, id_metric,
                   transition_metric, stats, insights,
                   activity_metric, auto_insights, exporter, table, holders, call,
                   pydot_graph, counter, bpmns>>

-----------------------------------------------------------------------------
(* DataHolder on a table with a numeric duration column                    *)

MaxTableRows == 3
MaxHolders == 2

\* The values the caller writes into the duration column, and the units tried.
TableValues == {1, 2, 3}
UnitsTried == {"second", "minute"}

\* DataHolder.__init__, "Transform to seconds": the coefficient of the unit.
unit_coeff(duration_unit) ==
    CASE duration_unit = "second" -> 1
      [] duration_unit = "minute" -> 60
      [] duration_unit = "hour" -> 60 * 60
      [] duration_unit = "day" -> 60 * 60 * 24

\* The caller adds a row to their table; "written" keeps the value they wrote.
TableRow(v) ==
    /\ holders = <<>>
    /\ Len(table.rows) < MaxTableRows
    /\ table' = DataFrame(Append(table.rows, [written |-> v, duration |-> v]))
    /\ UNCHANGED <<stage, data, dh, cycle_metric, cycle_result, miner, id_metric,
                   transition_metric, stats, insights,
                   activity_metric, auto_insights, exporter, pool, holders, call,
                   pydot_graph, counter, bpmns>>

\* DataHolder(table, ..., duration_column, duration_unit): line 213 assigns the
\* multiplied column to the caller's table itself; _preprocess_data then gives
\* the holder its own copy of the rows.
NewDataHolder(duration_unit) ==
    /\ Len(holders) < MaxHolders
    /\ table' = DataFrame([i \in DOMAIN table.rows |->
                              [table.rows[i] EXCEPT !.duration = @ * unit_coeff(duration_unit)]])
    /\ holders' = Append(holders, [duration_unit |-> duration_unit, data |-> table'])
    /\ UNCHANGED <<stage, data, dh, cycle_metric, cycle_result, miner, id_metric,
                   transition_metric, stats, insights,
                   activity_metric, auto_insights, exporter, pool, call,
                   pydot_graph, counter, bpmns>>

-----------------------------------------------------------------------------
(* AutoInsights: the insight table                                         *)

\* The quantile pairs (q_min, q_top) tried, in hundredths; (10, 85) is the default.
QuantilePairs == {<<10, 85>>, <<0, 100>>, <<25, 75>>, <<50, 50>>}

\* One metric column of the table.
Column(rows, c) == [i \in DOMAIN rows |-> rows[i].vals[c]]

\* _get_quantilies: stats.quantile(q) of one column, linear interpolation
\* between the two order statistics around position (N - 1) * q.
Quantile(col, q) ==
    LET srt == SortInts(col)
        N == Len(col)
        lo == ((N - 1) * q) \div 100
        hi == IF lo + 1 < N THEN lo + 1 ELSE lo
        frac == ((N - 1) * q) % 100
    IN <<100 * srt[lo + 1] + frac * (srt[hi + 1] - srt[lo + 1]), 100>>

\* Variant of _sign that returns 1 for 0.
sign_nonnegative(x) == IF x >= 0 THEN 1 ELSE -1

\* _sign
sign(x) == IF x > 0 THEN 1 ELSE IF x < 0 THEN -1 ELSE 0

\* Variant of _insight_by_quantile with inclusive comparisons.
insight_by_quantile_inclusive(x, th_min, th_top) ==
    IF FracLe(<<x, 1>>, th_min) THEN -1
    ELSE IF FracLe(th_top, <<x, 1>>) THEN 1
    ELSE 0

\* _insight_by_quantile
insight_by_quantile(x, th_min, th_top) ==
    IF FracLt(<<x, 1>>, th_min) THEN -1
    ELSE IF FracLt(th_top, <<x, 1>>) THEN 1
    ELSE 0

\* _sum_insight: the sign of the sum of the cells after the name column.
sum_insight(cells) == sign(SumSeq(cells))

\* _get_insight
get_insight(rows, q_min, q_top) ==
    [i \in DOMAIN rows |->
        LET cells == [c \in DOMAIN rows[i].vals |->
                         insight_by_quantile(rows[i].vals[c],
                                             Quantile(Column(rows, c), q_min),
                                             Quantile(Column(rows, c), q_top))]
        IN [name |-> rows[i].name, cells |-> cells, insights |-> sum_insight(cells)]]

MaxStatsRows == 4
\* The metric columns of the table (after the name column) and their values.
MetricColumns == <<"count", "mean_duration">>
NumMetrics == Len(MetricColumns)
StatValues == 0..2

\* _get_stats: one more row of the metrics table, one value per metric column.
GetStatsRow ==
    /\ insights = None
    /\ Len(stats.rows) < MaxStatsRows
    /\ \E vals \in [1..NumMetrics -> StatValues] :
          stats' = DataFrame(Append(stats.rows, [name |-> Len(stats.rows) + 1, vals |-> vals]))
    /\ UNCHANGED <<stage, data, dh, cycle_metric, cycle_result, miner, id_metric,
                   transition_metric, insights,
                   activity_metric, auto_insights, exporter, pool, table, holders, call,
                   pydot_graph, counter, bpmns>>

\* AutoInsights._get_insight(stats, q_min, q_top)
GetInsight(q_min, q_top) ==
    /\ insights = None
    /\ insights' = [q_min |-> q_min, q_top |-> q_top,
                    rows |-> get_insight(stats.rows, q_min, q_top)]
    /\ UNCHANGED <<stage, data, dh, cycle_metric, cycle_result, miner, id_metric,
                   transition_metric, stats,
                   activity_metric, auto_insights, exporter, pool, table, holders, call,
                   pydot_graph, counter, bpmns>>

-----------------------------------------------------------------------------
(* AutoInsights: construction and apply                                    *)

\* The display modes _calculate_edge_labels accepts, and the modes tried.
Modes == {"overall", "time", "cycles"}
ModesTried == Modes \cup {"other"}

\* _get_stats: the table of a metric object. Its index is the index of
\* metric.count(): the activities, or the observed transitions as tuples, in
\* key order.
node_index(d) == activity_keys(d)
edge_index(d, cfg) ==
    LET keys == group_keys(edge_data(d, cfg))
    IN [i \in DOMAIN keys |-> split_tuple(keys[i])]

\* The columns joined to the index. The metric methods that compute them are
\* not defined by the metric classes, so the values are inputs: the same in
\* every row, rising or falling along the index.
StatsColumns == <<"mean_duration", "loop_percent">>
ColumnIndex(c) == CHOOSE i \in DOMAIN StatsColumns : StatsColumns[i] = c
StatsShapes == {"flat", "rising", "falling"}
ShapesTried == {<<"flat", "flat">>, <<"rising", "falling">>, <<"falling", "rising">>}
stats_vals(shape, i, N) ==
    CASE shape = "flat" -> <<1, 0>>
      [] shape = "rising" -> <<i, i>>
      [] shape = "falling" -> <<N + 1 - i, 0>>

get_stats(metric) ==
    DataFrame([i \in DOMAIN metric.index |->
                  [name |-> metric.index[i],
                   vals |-> stats_vals(metric.shape, i, Len(metric.index))]])

\* An attribute of a node or an edge of the graph: None or a value.
NoAttr == <<>>
Attr(value) == <<value>>

\* A dict as a function on its keys; dict.get(key) is None for a missing key.
dict_get(dct, key) == IF key \in DOMAIN dct THEN Attr(dct[key]) ELSE NoAttr

\* The row of a table with the given name.
RowOf(rows, name) == rows[CHOOSE i \in DOMAIN rows : rows[i].name = name]
NamesOf(rows) == {rows[i].name : i \in DOMAIN rows}

\* Variant of _get_miner_graph without miner.apply(): the graph the miner has.
get_miner_graph_kept(m, d) ==
    IF m.graph # None THEN m
    ELSE [m EXCEPT !.graph = [nodes |-> {}, edges |-> {}]]

\* _get_miner_graph: miner.apply() and then miner.graph. apply builds a new
\* graph object from the log every time.
get_miner_graph(m, d) ==
    LET unique_activities == get_unique_activities(d)
        heu_df == calc_coeffs(d)
        se == create_start_end_events_and_edges(
                 get_first_last_activities(get_grouped_data(d)))
    IN [m EXCEPT
          !.heu_df = DataFrame(heu_df),
          !.graph = [nodes |-> create_transitions(unique_activities) \cup se.nodes,
                     edges |-> se.edges \cup create_edges(heu_df, m.threshold)]]

\* str(round(mean_time, 1)) + time_unit, with ', cycle' appended or not.
Label(mean_time, time_unit, cycle) ==
    [mean_time |-> mean_time, time_unit |-> time_unit, cycle |-> cycle]

\* Variant of _calculate_edge_labels that labels bad edges only in every mode.
calculate_edge_labels_bad_only(edge_stats, edge_insights, mode, time_unit) ==
    LET bad == {n \in NamesOf(edge_stats.rows) :
                   mode # "cycles" /\ RowOf(edge_insights.rows, n).insights = 1}
    IN [n \in bad |->
          Label(RowOf(edge_stats.rows, n).vals[ColumnIndex("mean_duration")], time_unit,
                RowOf(edge_stats.rows, n).vals[ColumnIndex("loop_percent")] > 0)]

\* _calculate_edge_labels for the accepted modes: no label in mode 'cycles',
\* the mean duration of every row in mode 'time', and of the rows with the
\* verdict 1 in mode 'overall'.
calculate_edge_labels(edge_stats, edge_insights, mode, time_unit) ==
    LET mean_time(n) == RowOf(edge_stats.rows, n).vals[ColumnIndex("mean_duration")]
        cycle(n) == RowOf(edge_stats.rows, n).vals[ColumnIndex("loop_percent")]
        bad == {n \in NamesOf(edge_stats.rows) : RowOf(edge_insights.rows, n).insights = 1}
    IN CASE mode = "cycles" -> [n \in {} |-> None]
         [] mode = "time" ->
              [n \in NamesOf(edge_stats.rows) |-> Label(mean_time(n), time_unit, FALSE)]
         [] mode = "overall" ->
              [n \in bad |-> Label(mean_time(n), time_unit, cycle(n) > 0)]

\* _get_color: in mode 'cycles' red for the rows whose loop_percent cell is
\* positive, otherwise a colour for every row by its verdict.
i2c(ins) == CASE ins = 1 -> "red" [] ins = 0 -> "grey" [] ins = -1 -> "black"
get_color(insights_df, mode) ==
    IF mode = "cycles"
    THEN [n \in {m \in NamesOf(insights_df.rows) :
                    RowOf(insights_df.rows, m).cells[ColumnIndex("loop_percent")] > 0}
            |-> "red"]
    ELSE [n \in NamesOf(insights_df.rows) |-> i2c(RowOf(insights_df.rows, n).insights)]

\* The loops of apply over graph.edges and graph.nodes: every edge gets the
\* label and the colour of its key, every node the colour of its key, None
\* where the key is missing.
decorate(graph, labels, edge_colors, node_colors) ==
    [nodes |-> graph.nodes,
     edges |-> graph.edges,
     edge_label |-> [e \in graph.edges |-> dict_get(labels, e)],
     edge_color |-> [e \in graph.edges |-> dict_get(edge_colors, e)],
     node_color |-> [n \in graph.nodes |-> dict_get(node_colors, n)]]

\* Variant of _add_legend that adds the two nodes in every mode.
add_legend_always(graph, mode) ==
    [graph EXCEPT !.nodes = @ \cup {"legend_good", "legend_bad"},
                  !.node_color = ("legend_good" :> Attr("black") @@
                                        "legend_bad" :> Attr("red")) @@ @]

\* _add_legend: two informational nodes with their colours, in mode 'overall'
\* only.
add_legend(graph, mode) ==
    IF mode # "overall" THEN graph
    ELSE [graph EXCEPT !.nodes = @ \cup {"legend_good", "legend_bad"},
                       !.node_color = ("legend_good" :> Attr("black") @@
                                        "legend_bad" :> Attr("red")) @@ @]

\* The edge metric 'insights' of width_by_insight: the absolute value of the
\* sum of the cells of the row, for the edges of the graph that have a row.
abs(x) == IF x < 0 THEN -x ELSE x
add_edge_metric(graph, edge_insights) ==
    graph @@ [insights_metric |->
                [e \in graph.edges |->
                    IF e \in NamesOf(edge_insights.rows)
                    THEN Attr(abs(SumSeq(RowOf(edge_insights.rows, e).cells)))
                    ELSE NoAttr]]

\* AutoInsights.__init__ (the metric objects it builds need the duration
\* column). The field "applied" is history: whether some apply call has
\* returned normally; "first" is history: what the first apply call that
\* returned normally in each mode left in the object; "again" in the call
\* record is history: whether the mode of the call had been applied before.
AutoInsightsInit(time_unit) ==
    /\ stage = "holder"
    /\ dh.duration_column
    /\ auto_insights = None
    /\ \E shapes \in ShapesTried :
          auto_insights' = [_time_unit |-> time_unit,
                            _activity_metric |-> [index |-> node_index(data),
                                                  shape |-> shapes[1]],
                            _edge_metric |-> [index |-> edge_index(data, dh),
                                              shape |-> shapes[2]],
                            _node_insights |-> None,
                            _edge_insights |-> None,
                            graph |-> None,
                            applied |-> FALSE,
                            first |-> [m \in Modes |-> None]]
    /\ call' = [op |-> "AutoInsights", arg |-> time_unit, raised |-> "none"]
    /\ UNCHANGED <<stage, data, dh, cycle_metric, cycle_result, miner, id_metric,
                   transition_metric, stats, insights,
                   activity_metric, exporter, pool, table, holders,
                   pydot_graph, counter, bpmns>>

\* AutoInsights.apply(miner, mode, q_min, q_top) with width_by_insight=True:
\* the graph and the two insight tables are assigned before
\* _calculate_edge_labels looks at the mode. self.graph is the miner's graph
\* object, so the miner sees the decorations too.
AutoInsightsApply(mode, q_min, q_top) ==
    /\ auto_insights # None
    /\ miner # None
    /\ LET mined == get_miner_graph(miner, data)
           node_stats == get_stats(auto_insights._activity_metric)
           edge_stats == get_stats(auto_insights._edge_metric)
           node_insights == DataFrame(get_insight(node_stats.rows, q_min, q_top))
           edge_insights == DataFrame(get_insight(edge_stats.rows, q_min, q_top))
       IN IF mode \in Modes
          THEN LET graph ==
                     add_edge_metric(
                         add_legend(
                             decorate(mined.graph,
                                      calculate_edge_labels(edge_stats, edge_insights, mode,
                                                            auto_insights._time_unit),
                                      get_color(edge_insights, mode),
                                      get_color(node_insights, mode)),
                             mode),
                         edge_insights)
               IN /\ miner' = [mined EXCEPT !.graph = graph]
                  /\ auto_insights' =
                       [auto_insights EXCEPT
                          !.graph = graph,
                          !._node_insights = node_insights,
                          !._edge_insights = edge_insights,
                          !.applied = TRUE,
                          !.first[mode] =
                              IF @ # None THEN @
                              ELSE [graph |-> graph,
                                    _node_insights |-> node_insights,
                                    _edge_insights |-> edge_insights]]
                  /\ call' = [op |-> "AutoInsights.apply", arg |-> mode,
                              raised |-> "none",
                              again |-> auto_insights.first[mode] # None]
          ELSE /\ miner' = mined
               /\ auto_insights' = [auto_insights EXCEPT
                                      !.graph = mined.graph,
                                      !._node_insights = node_insights,
                                      !._edge_insights = edge_insights]
               /\ call' = [op |-> "AutoInsights.apply", arg |-> mode,
                           raised |-> "TypeError", again |-> FALSE]
    /\ UNCHANGED <<stage, data, dh, cycle_metric, cycle_result, id_metric,
                   transition_metric, stats, insights,
                   activity_metric, exporter, pool, table, holders,
                   pydot_graph, counter, bpmns>>

\* get_graph, describe_nodes, describe_edges: the fields as they are.
get_graph(ai) == ai.graph
describe_nodes(ai) == ai._node_insights
describe_edges(ai) == ai._edge_insights

-----------------------------------------------------------------------------
(* BpmnExporter                                                            *)

\* GraphType: the type tags of a Graph object.
PETRI_NET == "PETRI_NET"
GraphTypes == {"DFG", PETRI_NET, "BPMN"}

\* BpmnExporter.__init__
BpmnExporterInit ==
    /\ exporter = None
    /\ exporter' = [xml_maker |-> None, applied |-> FALSE]
    /\ call' = [op |-> "BpmnExporter", arg |-> None, raised |-> "none"]
    /\ UNCHANGED <<stage, data, dh, cycle_metric, cycle_result, miner, id_metric,
                   transition_metric, stats, insights,
                   activity_metric, auto_insights, pool, table, holders,
                   pydot_graph, counter, bpmns>>

\* apply_petri(petri_net) on a graph with the nodes and edges of the mined
\* graph and the given type: TypeError unless the type is PETRI_NET, otherwise
\* xml_maker is the XMLMaker made from the converted graph. The field
\* "applied" is history: whether some apply_petri call has returned normally.
ApplyPetri(type) ==
    /\ exporter # None
    /\ miner # None
    /\ miner.graph # None
    /\ IF type # PETRI_NET
       THEN /\ call' = [op |-> "apply_petri", arg |-> type, raised |-> "TypeError"]
            /\ UNCHANGED exporter
       ELSE /\ exporter' = [xml_maker |-> [nodes |-> miner.graph.nodes,
                                           edges |-> miner.graph.edges],
                            applied |-> TRUE]
            /\ call' = [op |-> "apply_petri", arg |-> type, raised |-> "none"]
    /\ UNCHANGED <<stage, data, dh, cycle_metric, cycle_result, miner, id_metric,
                   transition_metric, stats, insights,
                   activity_metric, auto_insights, pool, table, holders,
                   pydot_graph, counter, bpmns>>

\* Variant of xml_maker_is_none that never finds the exporter empty.
xml_maker_is_none_never(e) == FALSE

\* "if self.xml_maker is None"
xml_maker_is_none(e) == e.xml_maker = None

\* write(filename) and get_string_representation(): RuntimeError while
\* xml_maker is None, otherwise the XML of the stored graph.
ExporterOutput(op) ==
    /\ exporter # None
    /\ call' = [op |-> op, arg |-> None,
                raised |-> IF xml_maker_is_none(exporter) THEN "RuntimeError" ELSE "none"]
    /\ UNCHANGED <<stage, data, dh, cycle_metric, cycle_result, miner, id_metric,
                   transition_metric, stats, insights,
                   activity_metric, auto_insights, exporter, pool, table, holders,
                   pydot_graph, counter, bpmns>>

Write == ExporterOutput("write")
GetStringRepresentation == ExporterOutput("get_string_representation")

-----------------------------------------------------------------------------
(* XMLMaker: the BPMN objects made from a graph with coordinates           *)

MaxDotNodes == 3
MaxDotEdges == 2
MaxMakes == 2

\* The class attribute "type" of the BPMN object classes.
SequenceFlowType == "sequenceFlow"
NodeTypes == {"task", "startevent", "endevent", "parallelGateway", "exclusiveGateway"}
BpmnTypes == NodeTypes \cup {SequenceFlowType}

\* Names and labels of the nodes of the graph as bpmn_to_graph writes them
\* and as the dot data quotes them: the text, a space, in double quotes.
DotIds == {"startevent", "endevent", "a", "g", "x", "node"}
DotLabels == {"", "a", "+", "x"}
Quoted(id) == "\"" \o id \o " \""

\* modify_str: s[1:-2], the name without the quotes and the space.
modify_str(s) == CHOOSE id \in DotIds \cup DotLabels : Quoted(id) = s

\* The nodes a graph can have: the two events, a task, a parallel and an
\* exclusive gateway, and the 'node' entry of the dot data, which has no
\* position.
DotNodes ==
    {[name |-> Quoted("startevent"), shape |-> "circle", label |-> Quoted(""), pos |-> TRUE],
     [name |-> Quoted("endevent"), shape |-> "circle", label |-> Quoted(""), pos |-> TRUE],
     [name |-> Quoted("a"), shape |-> "box", label |-> Quoted("a"), pos |-> TRUE],
     [name |-> Quoted("g"), shape |-> "diamond", label |-> Quoted("+"), pos |-> TRUE],
     [name |-> Quoted("x"), shape |-> "diamond", label |-> Quoted("x"), pos |-> TRUE],
     [name |-> Quoted("node"), shape |-> "none", label |-> Quoted(""), pos |-> FALSE]}

\* One more node of the graph that is loaded; no two nodes have one name.
AddDotNode ==
    /\ bpmns = <<>>
    /\ Len(pydot_graph.node_list) < MaxDotNodes
    /\ \E n \in DotNodes :
          /\ \A i \in DOMAIN pydot_graph.node_list : pydot_graph.node_list[i].name # n.name
          /\ pydot_graph' = [pydot_graph EXCEPT !.node_list = Append(@, n)]
    /\ UNCHANGED <<stage, data, dh, cycle_metric, cycle_result, miner, id_metric,
                   transition_metric, stats, insights,
                   activity_metric, auto_insights, exporter, pool, table, holders, call,
                   counter, bpmns>>

\* One more edge of the graph, between two different nodes that have a
\* position.
AddDotEdge ==
    /\ bpmns = <<>>
    /\ Len(pydot_graph.edge_list) < MaxDotEdges
    /\ \E i, j \in DOMAIN pydot_graph.node_list :
          /\ i # j
          /\ pydot_graph.node_list[i].pos
          /\ pydot_graph.node_list[j].pos
          /\ pydot_graph' = [pydot_graph EXCEPT
                               !.edge_list = Append(@, [source |-> pydot_graph.node_list[i].name,
                                                        destination |-> pydot_graph.node_list[j].name])]
    /\ UNCHANGED <<stage, data, dh, cycle_metric, cycle_result, miner, id_metric,
                   transition_metric, stats, insights,
                   activity_metric, auto_insights, exporter, pool, table, holders, call,
                   counter, bpmns>>

\* BPMNObject.__init__: obj_type + '_' + str(obj_number)
ObjectId(obj_type, obj_number) == obj_type \o "_" \o ToString(obj_number)

\* The class _create_bpmn_objects picks for a node of the graph.
node_type(graph_node) ==
    LET name == modify_str(graph_node.name)
        label == modify_str(graph_node.label)
    IN CASE name = "startevent" -> "startevent"
         [] name = "endevent" -> "endevent"
         [] name \notin {"startevent", "endevent"} /\ graph_node.shape = "diamond" ->
              IF label = "+" THEN "parallelGateway" ELSE "exclusiveGateway"
         [] name \notin {"startevent", "endevent"} /\ graph_node.shape = "box" -> "task"

\* The first loop of _create_bpmn_objects: one object per node with a
\* position, numbered by the counter of its class, which is then incremented.
RECURSIVE create_bpmn_nodes(_, _, _)
create_bpmn_nodes(node_list, cnt, bpmn_nodes) ==
    IF node_list = <<>> THEN [bpmn_nodes |-> bpmn_nodes, counter |-> cnt]
    ELSE LET graph_node == Head(node_list)
             type == node_type(graph_node)
         IN IF ~ graph_node.pos
            THEN create_bpmn_nodes(Tail(node_list), cnt, bpmn_nodes)
            ELSE create_bpmn_nodes(
                     Tail(node_list),
                     [cnt EXCEPT ![type] = @ + 1],
                     Append(bpmn_nodes, [name |-> modify_str(graph_node.name),
                                         type |-> type,
                                         id |-> ObjectId(type, cnt[type])]))

\* The second loop: one SequenceFlow per edge, from and to the ids of the
\* objects of its two nodes.
RECURSIVE create_bpmn_edges(_, _, _, _)
create_bpmn_edges(edge_list, nodes, cnt, bpmn_edges) ==
    IF edge_list = <<>> THEN [bpmn_edges |-> bpmn_edges, counter |-> cnt]
    ELSE LET graph_edge == Head(edge_list)
             node_id(name) ==
                 nodes[CHOOSE i \in DOMAIN nodes : nodes[i].name = modify_str(name)].id
         IN create_bpmn_edges(
                Tail(edge_list), nodes,
                [cnt EXCEPT ![SequenceFlowType] = @ + 1],
                Append(bpmn_edges,
                       [id |-> ObjectId(SequenceFlowType, cnt[SequenceFlowType]),
                        sourceRef |-> node_id(graph_edge.source),
                        targetRef |-> node_id(graph_edge.destination)]))

\* _create_bpmn_objects with set_incoming / set_outgoing applied to the nodes.
create_bpmn_objects(graph, cnt) ==
    LET made_nodes == create_bpmn_nodes(graph.node_list, cnt, <<>>)
        made_edges == create_bpmn_edges(graph.edge_list, made_nodes.bpmn_nodes,
                                        made_nodes.counter, <<>>)
        edges == made_edges.bpmn_edges
        connected(n) ==
            n @@ [incoming |-> {edges[i].id : i \in {j \in DOMAIN edges : edges[j].targetRef = n.id}},
                  outgoing |-> {edges[i].id : i \in {j \in DOMAIN edges : edges[j].sourceRef = n.id}}]
    IN [bpmn_nodes |-> [i \in DOMAIN made_nodes.bpmn_nodes |-> connected(made_nodes.bpmn_nodes[i])],
        bpmn_edges |-> edges,
        counter |-> made_edges.counter]

\* XMLMaker().load_dot_data(dot_data).make(): load_dot_data wants a node with
\* a position; make builds BPMN(self._pydot_graph), whose objects go into the
\* XML tree.
XMLMakerMake ==
    /\ Len(bpmns) < MaxMakes
    /\ \E i \in DOMAIN pydot_graph.node_list : pydot_graph.node_list[i].pos
    /\ LET bpmn == create_bpmn_objects(pydot_graph, counter)
       IN /\ bpmns' = Append(bpmns, [bpmn_nodes |-> bpmn.bpmn_nodes,
                                     bpmn_edges |-> bpmn.bpmn_edges])
          /\ counter' = bpmn.counter
    /\ UNCHANGED <<stage, data, dh, cycle_metric, cycle_result, miner, id_metric,
                   transition_metric, stats, insights,
                   activity_metric, auto_insights, exporter, pool, table, holders, call,
                   pydot_graph>>

-----------------------------------------------------------------------------
(* Reference definitions, taken directly from the cases of the log.        *)

Cases(d) == 1..NumCases(d)
Trace(d, c) == ChainOf(d, c)
ActsOfLog(d) == {d[i].activity : i \in DOMAIN d}
TraceList(d) == [c \in Cases(d) |-> Trace(d, c)]

\* Number of occurrences of activity a in trace t.
Occurrences(t, a) == Cardinality({i \in DOMAIN t : t[i] = a})
FirstIndex(t, a) == CHOOSE i \in DOMAIN t : t[i] = a /\ \A j \in 1..(i - 1) : t[j] # a
LastIndex(t, a) == CHOOSE i \in DOMAIN t : t[i] = a /\ \A j \in (i + 1)..Len(t) : t[j] # a

\* Activity a is cyclic in trace t for the target length L.
IsCyclic(t, a, L) ==
    /\ Occurrences(t, a) > 1
    /\ L # NoLength => LastIndex(t, a) - FirstIndex(t, a) = L

\* Positions (case, i) where the transition a -> b re-enters the cyclic activity b.
ClosingPositions(d, a, b, L) ==
    {ci \in Cases(d) \X (1..Len(d)) :
        LET t == Trace(d, ci[1])
            i == ci[2]
        IN /\ i \in 2..Len(t)
           /\ t[i - 1] = a /\ t[i] = b
           /\ IsCyclic(t, b, L)
           /\ i # FirstIndex(t, b)}

\* The log of the end-to-end scenario: case 1 = [A,B,A,B], case 2 = [A,B].
ScenarioLog(d) == TraceList(d) = << <<"A", "B", "A", "B">>, <<"A", "B">> >>

-----------------------------------------------------------------------------
(* CycleMetric.find: claims                                                *)

\* C1: the node-count map returned by CycleMetric.find has exactly the unique
\* activities of the log as keys (an empty log gives two empty maps), and an
\* activity that occurs at most once in every case has the count 0.
C1_NodeKeysComplete ==
    cycle_result # None =>
        /\ DOMAIN cycle_result.nodes = ActsOfLog(data)
        /\ data = <<>> => (DOMAIN cycle_result.nodes = {} /\ DOMAIN cycle_result.edges = {})
        /\ \A a \in ActsOfLog(data) :
              (\A c \in Cases(data) : Occurrences(Trace(data, c), a) <= 1)
                  => cycle_result.nodes[a] = 0

\* A call on a log where one activity repeats inside a case and another never does.
C1_Witness ==
    /\ cycle_result # None
    /\ \E a, b \in ActsOfLog(data) :
          /\ cycle_result.nodes[a] > 0
          /\ cycle_result.nodes[b] = 0
          /\ \A c \in Cases(data) : Occurrences(Trace(data, c), b) <= 1

\* C8: the edge cycle count of (a,b) is the number of positions where b, cyclic
\* in that case, is re-entered from a after its first occurrence; in the
\* scenario log (target length none or 2) the closing transition B->A counts 1
\* and A has a node count of at least 1.
C8_EdgeCycleCount ==
    cycle_result # None =>
        LET L == cycle_metric._cycle_length
        IN /\ \A p \in DOMAIN cycle_result.edges :
                 cycle_result.edges[p] = Cardinality(ClosingPositions(data, p[1], p[2], L))
           /\ \A a, b \in Acts :
                 ClosingPositions(data, a, b, L) # {} => <<a, b>> \in DOMAIN cycle_result.edges
           /\ (ScenarioLog(data) /\ L \in {NoLength, 2}) =>
                 /\ cycle_result.edges[<<"B", "A">>] = 1
                 /\ cycle_result.nodes["A"] >= 1

\* The scenario log has been analysed with the default target length.
C8_Witness ==
    /\ cycle_result # None
    /\ ScenarioLog(data)
    /\ cycle_metric._cycle_length = NoLength
    /\ cycle_result.edges[<<"B", "A">>] = 1

-----------------------------------------------------------------------------
(* HeuMiner: claims                                                        *)

\* Number of times b directly follows a (follows a with one event between)
\* inside one case.
Count1(d, a, b) ==
    Cardinality({ci \in Cases(d) \X (1..Len(d)) :
        LET t == Trace(d, ci[1]) IN
            ci[2] + 1 <= Len(t) /\ t[ci[2]] = a /\ t[ci[2] + 1] = b})
Count2(d, a, b) ==
    Cardinality({ci \in Cases(d) \X (1..Len(d)) :
        LET t == Trace(d, ci[1]) IN
            ci[2] + 2 <= Len(t) /\ t[ci[2]] = a /\ t[ci[2] + 2] = b})

Applied == miner # None /\ miner.graph # None
HeuRows == miner.heu_df.rows
\* The rows of heu_df for the pair (a, b).
RowsFor(a, b) == {i \in DOMAIN HeuRows : HeuRows[i].a = a /\ HeuRows[i].b = b}
ActivityEdges == {e \in miner.graph.edges : e[1] \in Acts /\ e[2] \in Acts}

\* C2: a pair (a,b) seen at distance 1, c1 times as (a,b) and c2 times as
\* (b,a), gets the coefficient c1/(c1+1) if a = b and (c1-c2)/(c1+c2+1)
\* otherwise, and the coefficient lies strictly between -1 and 1.
C2_Coefficient ==
    Applied =>
        \A a, b \in Acts :
            LET c1 == Count1(data, a, b)
                c2 == Count1(data, b, a)
                expected == IF a = b THEN <<c1, c1 + 1>> ELSE <<c1 - c2, c1 + c2 + 1>>
            IN c1 > 0 =>
                 /\ RowsFor(a, b) # {}
                 /\ \A i \in RowsFor(a, b) :
                       /\ FracEq(HeuRows[i].coeff, expected)
                       /\ FracLt(<<-1, 1>>, HeuRows[i].coeff)
                       /\ FracLt(HeuRows[i].coeff, <<1, 1>>)

\* Both orders of two distinct activities and a self-loop have been mined.
C2_Witness ==
    /\ Applied
    /\ \E a, b \in Acts :
          /\ a # b
          /\ Count1(data, a, b) > 0 /\ Count1(data, b, a) > 0
          /\ Count1(data, a, a) > 0
          /\ \E i \in RowsFor(a, b) : HeuRows[i].coeff[1] < 0

\* C3: the graph has the activity edge (a,b) iff the coefficient computed for
\* (a,b) is at least the threshold; so the edges of a higher threshold are
\* among those of a lower one.
C3_EdgeIffCoefficient ==
    Applied =>
        /\ \A a, b \in Acts :
              /\ Cardinality(RowsFor(a, b)) <= 1
              /\ <<a, b>> \in miner.graph.edges
                    <=> \E i \in RowsFor(a, b) : FracLe(miner.threshold, HeuRows[i].coeff)
        /\ \A t1, t2 \in ThresholdTenths :
              (t1 <= t2 /\ miner.threshold = <<t2, 10>>) =>
                  ActivityEdges \subseteq create_edges(calc_coeffs(data), <<t1, 10>>)

\* A coefficient equal to the threshold keeps its edge, a smaller one loses it.
C3_Witness ==
    /\ Applied
    /\ \E i, j \in DOMAIN HeuRows :
          /\ FracEq(HeuRows[i].coeff, miner.threshold)
          /\ <<HeuRows[i].a, HeuRows[i].b>> \in miner.graph.edges
          /\ FracLt(HeuRows[j].coeff, miner.threshold)
          /\ <<HeuRows[j].a, HeuRows[j].b>> \notin miner.graph.edges

\* C4: in the scenario log the coefficient of (A,B) is (3-1)/(3+1+1) = 0.4 and
\* the graph mined at threshold 0.8 has no edge A->B.
C4_ScenarioCoefficient ==
    (Applied /\ ScenarioLog(data)) =>
        /\ RowsFor("A", "B") # {}
        /\ \A i \in RowsFor("A", "B") : FracEq(HeuRows[i].coeff, <<4, 10>>)
        /\ miner.threshold = DefaultThreshold => <<"A", "B">> \notin miner.graph.edges

\* The scenario log has been mined with threshold 0.8.
C4_Witness ==
    /\ Applied
    /\ ScenarioLog(data)
    /\ miner.threshold = DefaultThreshold
    /\ <<"A", "B">> \notin miner.graph.edges

\* C5 as stated: a distance-2 pair (a,_,b), a # b, has an entry only if neither
\* (a,b) nor (b,a) is a distance-1 pair; when (b,a) is one and (a,b) is not,
\* there is no entry for (a,b) and no edge (a,b).
C5_NeitherDirection ==
    Applied =>
        \A a, b \in Acts :
            (a # b /\ Count1(data, b, a) > 0 /\ Count1(data, a, b) = 0) =>
                /\ RowsFor(a, b) = {}
                /\ <<a, b>> \notin miner.graph.edges

\* C5 amended: a distance-2 pair (a,_,b), a # b, has an entry for (a,b) iff
\* (a,b) itself is not a distance-1 pair, whether or not (b,a) is one; the
\* entry has the coefficient (n+r)/(n+r+1) of the distance-2 counts and gives
\* the edge (a,b) at every threshold up to it.
C5_OwnDirectionOnly ==
    Applied =>
        \A a, b \in Acts :
            (a # b /\ Count1(data, a, b) = 0) =>
                LET n == Count2(data, a, b)
                    r == Count2(data, b, a)
                IN /\ RowsFor(a, b) # {} <=> n > 0
                   /\ \A i \in RowsFor(a, b) :
                         /\ FracEq(HeuRows[i].coeff, <<n + r, n + r + 1>>)
                         /\ <<a, b>> \in miner.graph.edges
                               <=> FracLe(miner.threshold, HeuRows[i].coeff)

\* A distance-2 pair (a,_,b) whose reverse (b,a) is a distance-1 pair has its
\* entry and its edge.
C5_Witness ==
    /\ Applied
    /\ \E a, b \in Acts :
          /\ a # b
          /\ Count2(data, a, b) > 0
          /\ Count1(data, a, b) = 0
          /\ Count1(data, b, a) > 0
          /\ RowsFor(a, b) # {}
          /\ <<a, b>> \in miner.graph.edges

\* C6: whatever the threshold, the graph has one node per unique activity plus
\* the start and the end node, an edge start->x exactly for the activities x
\* that open a case and an edge x->end exactly for those that close a case.
C6_NodesAndPseudoEdges ==
    Applied =>
        /\ miner.graph.nodes = ActsOfLog(data) \cup {StartNode, EndNode}
        /\ Cardinality(miner.graph.nodes) = Cardinality(ActsOfLog(data)) + 2
        /\ \A x \in Acts :
              /\ <<StartNode, x>> \in miner.graph.edges
                    <=> \E c \in Cases(data) : Trace(data, c)[1] = x
              /\ <<x, EndNode>> \in miner.graph.edges
                    <=> \E c \in Cases(data) : Trace(data, c)[Len(Trace(data, c))] = x
        /\ miner.graph.edges \ ActivityEdges \subseteq
              ({StartNode} \X ActsOfLog(data)) \cup (ActsOfLog(data) \X {EndNode})

\* A mined graph with an activity that has no activity edge at all and that
\* neither opens nor closes a case.
C6_Witness ==
    /\ Applied
    /\ \E x \in ActsOfLog(data) :
          /\ x \in miner.graph.nodes
          /\ \A e \in miner.graph.edges : e[1] # x /\ e[2] # x
    /\ \E y \in ActsOfLog(data) : <<StartNode, y>> \in miner.graph.edges

\* The log is one case with one event.
SingleEventLog(d) == Len(d) = 1

-----------------------------------------------------------------------------
(* TransitionMetric and AutoInsights: claims                               *)

\* The durations of the rows of case c, in order.
DurationTrace(d, c) == DurationsOf(RowsOfCase(d, c))

\* The occurrences (case, i) of the transition a -> b: events i and i+1 of the case.
Occurrences1(d, a, b) ==
    {ci \in Cases(d) \X (1..Len(d)) :
        LET t == Trace(d, ci[1]) IN
            ci[2] + 1 <= Len(t) /\ t[ci[2]] = a /\ t[ci[2] + 1] = b}

\* The defining event of an occurrence: its first event when events are paired
\* with the next one (start timestamp only), its second event otherwise.
DefiningDuration(d, cfg, ci) ==
    IF cfg.start_timestamp_column /\ ~ cfg.end_timestamp_column
    THEN DurationTrace(d, ci[1])[ci[2]]
    ELSE DurationTrace(d, ci[1])[ci[2] + 1]

RECURSIVE SumDefining(_, _, _)
SumDefining(d, cfg, S) ==
    IF S = {} THEN 0
    ELSE LET ci == CHOOSE x \in S : TRUE
         IN DefiningDuration(d, cfg, ci) + SumDefining(d, cfg, S \ {ci})

Returned == transition_metric # None /\ transition_metric.returned # None
ReturnedRows == transition_metric.returned.rows
ObservedTransitions(d) == {p \in Acts \X Acts : Count1(d, p[1], p[2]) > 0}

\* C9: the returned table has one row per observed transition, and the row
\* labelled (a,b) has the count of (a,b) and the duration statistics of the
\* defining events of the occurrences of (a,b); in the scenario log with
\* A = 10s, B = 20s (seconds, events paired with the next one) the row A->B has
\* count 3 and mean duration 10.
C9_RowCarriesOwnStatistics ==
    Returned =>
        /\ {ReturnedRows[i].transition : i \in DOMAIN ReturnedRows} = ObservedTransitions(data)
        /\ Len(ReturnedRows) = Cardinality(ObservedTransitions(data))
        /\ \A i \in DOMAIN ReturnedRows :
              LET r == ReturnedRows[i]
                  occ == Occurrences1(data, r.transition[1], r.transition[2])
                  unit == transition_metric._time_unit
                  durs == {DefiningDuration(data, dh, ci) : ci \in occ}
              IN /\ r.total_count = Cardinality(occ)
                 /\ FracEq(r.total_duration, <<SumDefining(data, dh, occ), unit>>)
                 /\ FracEq(r.mean_duration, <<SumDefining(data, dh, occ), Cardinality(occ) * unit>>)
                 /\ \E x \in durs : FracEq(r.min_duration, <<x, unit>>) /\ \A y \in durs : x <= y
                 /\ \E x \in durs : FracEq(r.max_duration, <<x, unit>>) /\ \A y \in durs : x >= y
        /\ ( /\ ScenarioLog(data)
             /\ \A i \in DOMAIN data :
                   data[i].duration = (IF data[i].activity = "A" THEN 10 ELSE 20)
             /\ dh.start_timestamp_column /\ ~ dh.end_timestamp_column
             /\ transition_metric._time_unit = 1 )
           => \E i \in DOMAIN ReturnedRows :
                 /\ ReturnedRows[i].transition = <<"A", "B">>
                 /\ ReturnedRows[i].total_count = 3
                 /\ FracEq(ReturnedRows[i].mean_duration, <<10, 1>>)

\* The thresholds of column c of the metrics table.
ThMin(c) == Quantile(Column(stats.rows, c), insights.q_min)
ThTop(c) == Quantile(Column(stats.rows, c), insights.q_top)

\* C10: a per-metric cell is -1 below the column's q_min quantile, +1 above
\* its q_top quantile and 0 otherwise, and the 'insights' cell of a row is the
\* sign of the sum of the row's per-metric cells.
C10_CellsAndVerdict ==
    insights # None =>
        /\ Len(insights.rows) = Len(stats.rows)
        /\ \A i \in DOMAIN insights.rows :
              LET r == insights.rows[i]
                  total == SumSeq(r.cells)
              IN /\ r.name = stats.rows[i].name
                 /\ \A c \in 1..NumMetrics :
                       LET x == <<stats.rows[i].vals[c], 1>>
                       IN /\ FracLt(x, ThMin(c)) => r.cells[c] = -1
                          /\ FracLt(ThTop(c), x) => r.cells[c] = 1
                          /\ (~ FracLt(x, ThMin(c)) /\ ~ FracLt(ThTop(c), x)) => r.cells[c] = 0
                 /\ total > 0 => r.insights = 1
                 /\ total < 0 => r.insights = -1
                 /\ total = 0 => r.insights = 0

\* An insight table with a bad row, a good row and a row whose cells cancel.
C10_Witness ==
    /\ insights # None
    /\ \E i, j, k \in DOMAIN insights.rows :
          /\ insights.rows[i].insights = 1
          /\ insights.rows[j].insights = -1
          /\ insights.rows[k].insights = 0
          /\ \E c1, c2 \in 1..NumMetrics :
                insights.rows[k].cells[c1] = 1 /\ insights.rows[k].cells[c2] = -1

\* ceil(q * N) for q given in hundredths.
CeilHundredths(q, N) == (q * N + 99) \div 100

\* The rows of the insight table whose cell in column c is v.
RowsClassified(c, v) == {i \in DOMAIN insights.rows : insights.rows[i].cells[c] = v}

\* C11: in a column of N rows, with 0 <= q_min <= q_top <= 1, at most
\* ceil(q_min * N) rows are classified -1 and at most ceil((1 - q_top) * N)
\* rows are classified +1.
C11_QuantileCounts ==
    (insights # None /\ 0 <= insights.q_min /\ insights.q_min <= insights.q_top
        /\ insights.q_top <= 100) =>
        \A c \in 1..NumMetrics :
            LET N == Len(stats.rows)
            IN /\ Cardinality(RowsClassified(c, -1)) <= CeilHundredths(insights.q_min, N)
               /\ Cardinality(RowsClassified(c, 1)) <= CeilHundredths(100 - insights.q_top, N)

\* A column where both counts are positive and reach their limits.
C11_Witness ==
    /\ insights # None
    /\ insights.q_min > 0 /\ insights.q_top < 100
    /\ \E c \in 1..NumMetrics :
          LET N == Len(stats.rows)
          IN /\ Cardinality(RowsClassified(c, -1)) = CeilHundredths(insights.q_min, N)
             /\ Cardinality(RowsClassified(c, 1)) = CeilHundredths(100 - insights.q_top, N)
             /\ Cardinality(RowsClassified(c, -1)) > 0
             /\ Cardinality(RowsClassified(c, 1)) > 0

\* C12: an AutoInsights object is undecorated until its first successful apply
\* and decorated afterwards; describe_nodes, describe_edges and get_graph
\* return none in every undecorated state and the tables and the graph in
\* every decorated state.
C12_DescribeFollowsState ==
    auto_insights # None =>
        IF auto_insights.applied
        THEN /\ describe_nodes(auto_insights) # None
             /\ describe_edges(auto_insights) # None
             /\ get_graph(auto_insights) # None
        ELSE /\ describe_nodes(auto_insights) = None
             /\ describe_edges(auto_insights) = None
             /\ get_graph(auto_insights) = None

\* C13: apply with a mode other than 'overall', 'time', 'cycles' fails, and
\* after the failed call on an undecorated engine describe_nodes,
\* describe_edges and get_graph still return none.
C13_UnknownModeLeavesNone ==
    (auto_insights # None /\ call.op = "AutoInsights.apply" /\ call.arg \notin Modes) =>
        /\ call.raised # "none"
        /\ ~ auto_insights.applied =>
              /\ describe_nodes(auto_insights) = None
              /\ describe_edges(auto_insights) = None
              /\ get_graph(auto_insights) = None

\* Whether the metrics table of a metric object exists.
HasMetrics(m) == IF m = None THEN FALSE ELSE m.metrics # None

\* The table is non-empty and has the variance_duration and std_duration columns.
HasStdColumns(df) ==
    /\ df.rows # <<>>
    /\ \A i \in DOMAIN df.rows :
          {"variance_duration", "std_duration"} \subseteq DOMAIN df.rows[i]

\* C14: the metrics table is computed by the first apply() call only; a later
\* call neither recomputes nor reassigns the cached table and returns a table
\* equal to the one the first call returned.
C14_ComputedOnce ==
    [][/\ HasMetrics(activity_metric) =>
             /\ activity_metric'.metrics = activity_metric.metrics
             /\ call' # call => /\ call'.op = "ActivityMetric.apply" => ~ call'.computed
                                /\ call'.op = "ActivityMetric.apply" =>
                                      call'.returned = activity_metric.metrics
       /\ HasMetrics(transition_metric) =>
             /\ transition_metric'.metrics = transition_metric.metrics
             /\ transition_metric'.returned = transition_metric.returned]_vars

\* A second apply call with the argument of the first has returned the cached
\* table, and so has a second call on the transition metric.
C14_Witness ==
    /\ HasMetrics(activity_metric)
    /\ activity_metric.metrics.rows # <<>>
    /\ call.op = "ActivityMetric.apply"
    /\ ~ call.computed
    /\ call.arg = HasStdColumns(activity_metric.metrics)
    /\ call.returned = activity_metric.metrics
    /\ HasMetrics(transition_metric)

\* C15: the table returned by apply(std=s) has the variance_duration and
\* std_duration columns if and only if s is true, whatever calls were made
\* before on the same instance.
C15_StdColumnsFollowArgument ==
    (HasMetrics(activity_metric) /\ call.op = "ActivityMetric.apply"
        /\ call.returned.rows # <<>>) =>
        (HasStdColumns(call.returned) <=> call.arg)

\* C16: constructing a metric object on a holder with no duration column and
\* neither timestamp column fails and leaves the DataHolder unchanged:
\* duration_column stays none and no column is added.
C16_FailsAndLeavesHolder ==
    [][(/\ dh # None
        /\ ~ dh.duration_column
        /\ ~ dh.start_timestamp_column
        /\ ~ dh.end_timestamp_column
        /\ call' # call)
       => /\ call'.op = "ActivityMetric"
          /\ call'.raised = "RuntimeError"
          /\ activity_metric' = None
          /\ dh' = dh
          /\ data' = data
          /\ \A i \in DOMAIN data' : "duration" \notin DOMAIN data'[i]]_vars

\* The construction has failed on a non-empty log.
C16_Witness ==
    /\ dh # None
    /\ ~ dh.duration_column
    /\ ~ dh.start_timestamp_column /\ ~ dh.end_timestamp_column
    /\ data # <<>>
    /\ call # None
    /\ call.raised = "RuntimeError"
    /\ activity_metric = None

\* The holder derived the duration column from one timestamp column.
DerivedFromStart ==
    /\ activity_metric # None
    /\ dh.start_timestamp_column /\ ~ dh.end_timestamp_column
DerivedFromEnd ==
    /\ activity_metric # None
    /\ ~ dh.start_timestamp_column /\ dh.end_timestamp_column

\* C20: with the start column only, the duration of an event is the start of
\* the next event of its case minus its own start, and null for the last
\* event of each case; with the end column only, it is its own end minus the
\* end of the previous event of its case, and null for the first event of
\* each case.
C20_SingleTimestampDuration ==
    /\ DerivedFromStart =>
          \A c \in Cases(data) :
             LET r == RowsOfCase(data, c)
             IN \A k \in DOMAIN r :
                   r[k].duration =
                      IF k < Len(r)
                      THEN Seconds(r[k + 1].start_timestamp - r[k].start_timestamp)
                      ELSE Null
    /\ DerivedFromEnd =>
          \A c \in Cases(data) :
             LET r == RowsOfCase(data, c)
             IN \A k \in DOMAIN r :
                   r[k].duration =
                      IF k > 1
                      THEN Seconds(r[k].end_timestamp - r[k - 1].end_timestamp)
                      ELSE Null

\* Two cases, the first with two events at different times: a duration that
\* is not null and a null duration next to a row of the other case.
C20_Witness ==
    /\ DerivedFromStart \/ DerivedFromEnd
    /\ NumCases(data) = MaxCases
    /\ \E i \in DOMAIN data : data[i].duration \notin {Null, Seconds(0)}
    /\ \E i \in DOMAIN data :
          /\ i + 1 \in DOMAIN data
          /\ data[i].id # data[i + 1].id
          /\ data[i].duration = Null \/ data[i + 1].duration = Null

\* The rows of the grouped table returned for case c.
GroupedRows(c) == SelectSeq(pool.grouped_data.rows, LAMBDA r : r.id = c)

\* C17: with n_jobs > 1 the grouped table has, for every case id, the same
\* tuple of values as with n_jobs = 1, for every partition of the cases and
\* every order in which the workers complete.
C17_ParallelSameAsSerial ==
    (pool # None /\ pool.grouped_data # None) =>
        /\ Len(pool.grouped_data.rows) = NumCases(data)
        /\ \A c \in Cases(data) :
              /\ Len(GroupedRows(c)) = 1
              /\ GroupedRows(c)[1].activity = get_grouped_data(data)[c]

\* Two partitions, the second case submitted before the first, the second
\* task completed before the first.
C17_Witness ==
    /\ pool # None
    /\ pool.grouped_data # None
    /\ pool.n_jobs > 1
    /\ Len(pool.sub_data) = MaxCases
    /\ pool.sub_data[1][1].id > pool.sub_data[Len(pool.sub_data)][1].id
    /\ pool.finished[1] = Len(pool.sub_data)
    /\ \E c \in Cases(data) : Len(Trace(data, c)) > 1

\* C18: in every DataHolder constructed from the caller's table, the first
\* and every later one, the stored duration of a row is the value the caller
\* wrote times the number of seconds of the holder's duration unit.
C18_StoredInSeconds ==
    \A h \in DOMAIN holders :
        \A i \in DOMAIN holders[h].data.rows :
            holders[h].data.rows[i].duration =
                holders[h].data.rows[i].written * unit_coeff(holders[h].duration_unit)

\* C19: write and get_string_representation succeed exactly when an
\* apply_petri call on the exporter has succeeded before and raise an error
\* otherwise; apply_petri on a graph that is not a Petri net raises an error
\* and leaves the exporter as it was.
C19_OutputAfterApplyPetri ==
    [][call' # call =>
         /\ call'.op \in {"write", "get_string_representation"} =>
               (call'.raised = "none" <=> exporter.applied)
         /\ (call'.op = "apply_petri" /\ call'.arg # PETRI_NET) =>
               /\ call'.raised # "none"
               /\ exporter' = exporter]_vars

\* An output call has raised on an exporter that has a mined graph at hand
\* and no successful apply_petri behind it.
C19_Witness ==
    /\ exporter # None
    /\ ~ exporter.applied
    /\ miner # None
    /\ miner.graph # None
    /\ miner.graph.edges # {}
    /\ call.op \in {"write", "get_string_representation"}
    /\ call.raised = "RuntimeError"

\* C21: the keys of the edge-cycle-count map are exactly the ordered pairs
\* (a,b) with b immediately following a within one case; no key pairs the last
\* event of a case with the first event of the next case or with a missing
\* value.
C21_EdgeKeysWithinCases ==
    cycle_result # None =>
        DOMAIN cycle_result.edges = ObservedTransitions(data)

\* What case c adds to the node count of activity a for the target length L.
CaseContribution(d, c, a, L) ==
    IF IsCyclic(Trace(d, c), a, L) THEN Occurrences(Trace(d, c), a) ELSE 0

ApplyCalled == auto_insights # None /\ call.op = "AutoInsights.apply"
ApplyReturned == ApplyCalled /\ call.raised = "none"

\* The graph HeuMiner.apply produces from the log.
MinedGraph == get_miner_graph(miner, data).graph
LegendNodes == {"legend_good", "legend_bad"}

IsColour(colour, colours) == colour # NoAttr => colour \in {Attr(c) : c \in colours}

HasEdgeRow(e) == e \in NamesOf(describe_edges(auto_insights).rows)
EdgeVerdict(e) == RowOf(describe_edges(auto_insights).rows, e).insights
IsLabelled(e) == get_graph(auto_insights).edge_label[e] # NoAttr

VerdictColour(v) == IF v = -1 THEN "black" ELSE IF v = 0 THEN "grey" ELSE "red"
NodeVerdict(n) == RowOf(describe_nodes(auto_insights).rows, n).insights

\* C30: after apply in mode 'overall' every activity node and every edge
\* between two activities has the colour of its verdict (black, grey, red); no
\* such edge, one from a distance-2 pair included, is without a colour.
C30_ColoursMatchVerdict ==
    (ApplyReturned /\ call.arg = "overall") =>
        LET graph == get_graph(auto_insights) IN
        /\ \A n \in graph.nodes \cap Acts :
              /\ n \in NamesOf(describe_nodes(auto_insights).rows)
              /\ graph.node_color[n] = Attr(VerdictColour(NodeVerdict(n)))
        /\ \A e \in graph.edges :
              (e[1] \in Acts /\ e[2] \in Acts) =>
                  /\ graph.edge_color[e] # NoAttr
                  /\ HasEdgeRow(e)
                  /\ graph.edge_color[e] = Attr(VerdictColour(EdgeVerdict(e)))

\* The objects of one construction, in creation order, and those of one type.
ObjectsOf(bpmn) ==
    [i \in DOMAIN bpmn.bpmn_nodes |-> [type |-> bpmn.bpmn_nodes[i].type,
                                       id |-> bpmn.bpmn_nodes[i].id]]
    \o [i \in DOMAIN bpmn.bpmn_edges |-> [type |-> SequenceFlowType,
                                          id |-> bpmn.bpmn_edges[i].id]]
ObjectsOfType(bpmn, type) == SelectSeq(ObjectsOf(bpmn), LAMBDA o : o.type = type)

\* C25: the ids of the BPMN objects of one construction depend only on its
\* input: they are pairwise distinct, numbered from 0 upwards within each kind
\* of object, and a second construction from the same graph in the same
\* process has the ids of the first.
C25_IdsDependOnInput ==
    /\ \A k \in DOMAIN bpmns :
          /\ \A i, j \in DOMAIN ObjectsOf(bpmns[k]) :
                i # j => ObjectsOf(bpmns[k])[i].id # ObjectsOf(bpmns[k])[j].id
          /\ \A type \in BpmnTypes :
                \A i \in DOMAIN ObjectsOfType(bpmns[k], type) :
                    ObjectsOfType(bpmns[k], type)[i].id = ObjectId(type, i - 1)
    /\ \A k, l \in DOMAIN bpmns : bpmns[k] = bpmns[l]

\* C26: constructing a metric with an unrecognized time unit fails and leaves
\* the DataHolder as it was: no duration column is derived or added and
\* duration_column keeps its value.
C26_UnknownUnitLeavesHolder ==
    [][(/\ call' # call
        /\ call'.op = "ActivityMetric"
        /\ call'.arg \notin KnownTimeUnits)
       => /\ call'.raised # "none"
          /\ activity_metric' = None
          /\ dh' = dh
          /\ data' = data]_vars

\* The number of rows of the log with the activity a.
TotalCount(d, a) == Cardinality({i \in DOMAIN d : d[i].activity = a})
\* The by-activity cycle percentage as ActivityMetric.apply formats it, in
\* hundredths of a percent.
CyclePercent(d, a) == format_2f(<<cycle_result.nodes[a] * 100, TotalCount(d, a)>>)

\* C27: for every target cycle length (or none) the node cycle count of an
\* activity is at most the number of its occurrences in the log, the edge
\* cycle count of a pair (a,b) is at most the number of within-case transitions
\* from a to b, and so the by-activity cycle percentage lies in [0,100].
C27_CountsBounded ==
    cycle_result # None =>
        /\ \A a \in ActsOfLog(data) :
              /\ cycle_result.nodes[a] >= 0
              /\ cycle_result.nodes[a] <= TotalCount(data, a)
              /\ CyclePercent(data, a) \in 0..10000
        /\ \A p \in DOMAIN cycle_result.edges :
              /\ cycle_result.edges[p] >= 0
              /\ cycle_result.edges[p] <= Count1(data, p[1], p[2])

\* An activity cyclic in one case and occurring once in another: its node count
\* is positive and below its number of occurrences, and the transition that
\* re-enters it is counted.
C27_Witness ==
    /\ cycle_result # None
    /\ \E a \in ActsOfLog(data) :
          /\ cycle_result.nodes[a] > 0
          /\ cycle_result.nodes[a] < TotalCount(data, a)
          /\ CyclePercent(data, a) \in 1..9999
          /\ \E p \in DOMAIN cycle_result.edges :
                p[2] = a /\ cycle_result.edges[p] > 0

\* The negation of a coefficient.
FracNeg(x) == <<0 - x[1], x[2]>>
\* a and b are distinct and each directly follows the other somewhere.
BothOrders(d, a, b) == a # b /\ Count1(d, a, b) > 0 /\ Count1(d, b, a) > 0

\* C28: two distinct activities that directly follow each other in both orders
\* have the coefficients coeff(a,b) = -coeff(b,a); at a threshold above 0 the
\* graph has at most one of the edges (a,b) and (b,a), and neither when both
\* orders occur equally often.
C28_Antisymmetric ==
    Applied =>
        \A a, b \in Acts :
            BothOrders(data, a, b) =>
                /\ Cardinality(RowsFor(a, b)) = 1
                /\ Cardinality(RowsFor(b, a)) = 1
                /\ \A i \in RowsFor(a, b), j \in RowsFor(b, a) :
                      FracEq(HeuRows[i].coeff, FracNeg(HeuRows[j].coeff))
                /\ miner.threshold[1] > 0 =>
                      /\ ~ (<<a, b>> \in miner.graph.edges /\ <<b, a>> \in miner.graph.edges)
                      /\ Count1(data, a, b) = Count1(data, b, a) =>
                            /\ <<a, b>> \notin miner.graph.edges
                            /\ <<b, a>> \notin miner.graph.edges

\* Mined at a threshold above 0: a pair seen in both orders, more often in
\* one, has the edge of that order only.
C28_Witness ==
    /\ Applied
    /\ miner.threshold[1] > 0
    /\ \E a, b \in Acts :
          /\ BothOrders(data, a, b)
          /\ <<a, b>> \in miner.graph.edges
          /\ <<b, a>> \notin miner.graph.edges

-----------------------------------------------------------------------------
Init ==
    /\ stage = "input"
    /\ data = <<>>
    /\ dh = None
    /\ cycle_metric = None
    /\ cycle_result = None
    /\ miner = None
    /\ id_metric = None
    /\ transition_metric = None
    /\ stats = DataFrame(<<>>)
    /\ insights = None
    /\ activity_metric = None
    /\ auto_insights = None
    /\ exporter = None
    /\ pool = None
    /\ table = DataFrame(<<>>)
    /\ holders = <<>>
    /\ call = None
    /\ pydot_graph = [node_list |-> <<>>, edge_list |-> <<>>]
    /\ counter = [type \in BpmnTypes |-> 0]
    /\ bpmns = <<>>

\* The event log and the cycle detector.
NextCycle ==
    \/ ReadRow(Acts, {10})
    \/ DataHolderInit(TRUE, FALSE)
    \/ \E L \in CycleLengths : CycleMetricInit(L)
    \/ CycleMetricFind

SpecCycle == Init /\ [][NextCycle]_vars

\* The event log and the heuristic miner.
NextHeu ==
    \/ ReadRow(Acts, {10})
    \/ DataHolderInit(TRUE, FALSE)
    \/ \E t \in ThresholdTenths : HeuMinerInit(<<t, 10>>)
    \/ HeuMinerApply

SpecHeu == Init /\ [][NextHeu]_vars

\* The miner and the by-case metrics on logs over two activities.
NextTrace ==
    \/ ReadRow({"A", "B"}, {10})
    \/ DataHolderInit(TRUE, FALSE)
    \/ \E t \in ThresholdTenths : HeuMinerInit(<<t, 10>>)
    \/ HeuMinerApply
    \/ \E u \in TimeUnits : IdMetricInit(u)
    \/ \E std \in BOOLEAN : IdMetricApply(std)

SpecTrace == Init /\ [][NextTrace]_vars

\* The by-transition metrics on logs over two activities with free durations.
NextTransition ==
    \/ ReadRow({"A", "B"}, Durations)
    \/ \E end_ts \in BOOLEAN : DataHolderInit(TRUE, end_ts)
    \/ TransitionMetricInit("second", 2)
    \/ \E std \in BOOLEAN : TransitionMetricApply(std)

SpecTransition == Init /\ [][NextTransition]_vars

\* The insight classification of a metrics table.
NextInsight ==
    \/ GetStatsRow
    \/ \E q \in QuantilePairs : GetInsight(q[1], q[2])

SpecInsight == Init /\ [][NextInsight]_vars

\* The insight engine on the graph of a heuristic miner.
MaxAutoRows == 3
\* A threshold low enough for a pair seen once to become an edge.
AutoThreshold == <<5, 10>>
ReadAutoRow == Len(data) < MaxAutoRows /\ ReadRow(Acts, {10})

NextAuto ==
    \/ ReadAutoRow
    \/ DataHolderInit(TRUE, FALSE)
    \/ HeuMinerInit(AutoThreshold)
    \/ AutoInsightsInit("hour")
    \/ \E mode \in ModesTried : AutoInsightsApply(mode, 10, 85)

SpecAuto == Init /\ [][NextAuto]_vars

\* The by-activity and by-transition metrics, applied any number of times.
NextMetric ==
    \/ ReadRow({"A", "B"}, {10})
    \/ DataHolderInit(TRUE, FALSE)
    \/ \E u \in TimeUnits : ActivityMetricInit(u, NoLength)
    \/ \E std \in BOOLEAN : ActivityMetricApply(std)
    \/ TransitionMetricInit("second", 2)
    \/ \E std \in BOOLEAN : TransitionMetricApply(std)

SpecMetric == Init /\ [][NextMetric]_vars

\* The derived duration column of a log with timestamps.
UnknownTimeUnit == "fortnight"

NextDuration ==
    \/ ReadStampedRow({"A"})
    \/ \E start_ts, end_ts \in BOOLEAN : DataHolderInitStamped(start_ts, end_ts)
    \/ \E u \in TimeUnits \cup {UnknownTimeUnit} : ActivityMetricInit(u, NoLength)

SpecDuration == Init /\ [][NextDuration]_vars

\* Grouping the log by case, serially and with a worker pool.
NextGrouped ==
    \/ ReadRow({"A", "B"}, {10})
    \/ DataHolderInit(TRUE, FALSE)
    \/ \E n_jobs \in Jobs : GetGroupedDataSubmit(n_jobs)
    \/ \E k \in 1..MaxCases : WorkerFinish(k)
    \/ GetGroupedDataCollect

SpecGrouped == Init /\ [][NextGrouped]_vars

\* DataHolders constructed one after the other from one input table.
NextUnit ==
    \/ \E v \in TableValues : TableRow(v)
    \/ \E u \in UnitsTried : NewDataHolder(u)

SpecUnit == Init /\ [][NextUnit]_vars

\* The BPMN exporter on graphs with the nodes and edges of a mined graph.
NextBpmn ==
    \/ ReadRow({"A", "B"}, {10})
    \/ DataHolderInit(TRUE, FALSE)
    \/ HeuMinerInit(DefaultThreshold)
    \/ HeuMinerApply
    \/ BpmnExporterInit
    \/ \E type \in GraphTypes : ApplyPetri(type)
    \/ Write
    \/ GetStringRepresentation

SpecBpmn == Init /\ [][NextBpmn]_vars


\* XMLMaker on a graph with coordinates, made more than once in one process.
NextXml ==
    \/ AddDotNode
    \/ AddDotEdge
    \/ XMLMakerMake

SpecXml == Init /\ [][NextXml]_vars

====
